---- MODULE Spec2Model ----
(***************************************************************************)
(* Model of the sleuth client (github.com/ursiform/sleuth): the service    *)
(* registry and its round-robin worker pools, the pending-call table with  *)
(* its timers, the availability notifier and the dispatcher loop.          *)
(*                                                                         *)
(* Every mutex-protected critical section of the Go code that cannot block *)
(* inside is one atomic action; a function that takes several locks in a   *)
(* row (Client.add, Client.remove, Client.Do, Client.has) is one action    *)
(* per critical section, so that other goroutines interleave between them. *)
(* Unsynchronized accesses to Client.handle are separate actions.          *)
(***************************************************************************)
EXTENDS Integers, Sequences, FiniteSets, TLC

\* ---------------------------------------------------------------- bounds
\* Number of Do invocations (each may run concurrently with the others).
NumCalls == 2
\* Number of response frames the remote handlers send in all.
MaxFrames == 2
\* Number of WaitFor invocations.
NumWaiters == 1
\* Longest list of a stand-alone worker pool and number of next() calls traced.
MaxPeers == 3
MaxTrace == 4
\* Number of Close invocations.
NumCloses == 2
\* Number of requests the dispatcher hands to the handler in all.
MaxServed == 1
MaxWrites == 2

\* ------------------------------------------------------ program constants
errDispatch == 902
errUnknownService == 919
errTimeout == 920
errRECV == 921
errAdd == 924
errReqWhisper == 929
errScheme == 916
errDispatchHeader == 914
errDispatchAction == 915
errResUnmarshal == 917
errResUnmarshalJSON == 918
errReqUnmarshalJSON == 927
errReqUnmarshalHTTP == 928
errREPL == 922
errReqUnmarshal == 926
errLeave == 931
errUnzip == 932
errResWhisper == 930
\* client.go names three codes that no error.go of the sources defines:
\* errClosed, errWait and errDo (the Do-site code, errRequest = 934 in the
\* revision of error.go that has it).  Only their being distinct matters.
errDo == 934
errClosed == 935
errWait == 936

group == "SLEUTH-v0"
scheme == "sleuth"
\* The bytes of group, recv and repl as they stand in a payload.
groupBytes == <<"S", "L", "E", "U", "T", "H", "-", "v", "0">>
recv == <<"R", "E", "C", "V">>
repl == <<"R", "E", "P", "L">>

\* ------------------------------------------------------------ input sets
Calls == 1..NumCalls
Waiters == 1..NumWaiters
\* The same callers of WaitFor and one more that waits at the same time.
ConcWaiters == 1..(NumWaiters + 1)
Closes == 1..NumCloses
Names == {"n1", "n2"}
Services == {"a", "b"}
Groups == {group, ""}
Schemes == {scheme, "http"}

\* The fabric address (UUID) of the peer announcing itself under a name.
NodeOf(name) == "uuid-" \o name

\* ----------------------------------------------------------------- state
VARIABLES
  handle,     \* Client.handle: the next correlation handle (int64)
  handles,    \* Client.listener.handles: handle string -> channel (of a call)
  chan,       \* the buffered channel (capacity 1) each Do call makes
  blocked,    \* publishers stuck on a send into a full channel, lock held
  pc,         \* position of each Do call
  call,       \* locals of each Do call
  timer,      \* the timeout goroutine each listen() spawns
  frames,     \* number of response frames the fabric has delivered
  directory,  \* Client.directory: peer name -> service
  workers,    \* Client.services.workers: service -> workers{list, current}
  dpc,        \* position of the dispatcher goroutine (sleuth.go listen)
  dev,        \* the fabric event the dispatcher is handling
  derr,       \* error code chain dispatch() returned, until it is logged
  active,     \* notifier.active
  wpc,        \* position of each WaitFor call
  wloc,       \* locals of each WaitFor call
  w,          \* a stand-alone workers object (as in the workers.go unit tests)
  trace,      \* peers returned by next() on w since its list last changed
  ret,        \* what the last call on w returned
  changed,    \* the last call that changed the list of w
  closed,     \* Client.closed
  gyre,       \* Client.node: how often Leave and Stop were called on it
  close,      \* position and returned code chain of each Close call
  served,     \* number of times dispatch handed a request to Client.handler
  wr,         \* the writer handed to the handler that is running
  sent,       \* the frames that writer has whispered, with their addressee
  mu,         \* for each mutex of the client, the task that holds it
  lk          \* for each task, the lock and unlock calls it has yet to make

doVars == <<handle, handles, chan, blocked, pc, call, timer, frames>>
regVars == <<directory, workers, dpc, dev, derr>>
waitVars == <<active, wpc, wloc>>
poolVars == <<w, trace, ret, changed>>
closeVars == <<closed, gyre, close, served>>
serveVars == <<wr, sent>>
lockVars == <<mu, lk>>
vars == <<handle, handles, chan, blocked, pc, call, timer, frames,
          directory, workers, dpc, dev, derr, active, wpc, wloc, w, trace,
          ret, changed,
          closed, gyre, close, served, wr, sent, mu, lk>>

\* ------------------------------------------------------------ error.go
\* An *Error is its Codes slice.
newError(code) == <<code>>

\* A variant of escalate that keeps the last code only.
escalate_replaces(e, code) == <<code>>

\* A variant of escalate that puts the new code first.
escalate_prepends(e, code) == <<code>> \o e

escalate(e, code) == Append(e, code)

\* ------------------------------------------------------------- peer.go
NoPeer == [name |-> "", node |-> "", service |-> ""]
Peer(name, node, service) == [name |-> name, node |-> node, service |-> service]

\* ----------------------------------------------------------- workers.go
newWorkers == [list |-> <<>>, current |-> 0]

IndexOf(list, name) ==
  IF \E i \in 1..Len(list) : list[i].name = name
  THEN CHOOSE i \in 1..Len(list) :
         /\ list[i].name = name
         /\ \A j \in 1..(i - 1) : list[j].name # name
  ELSE 0

\* A variant of workers.add that appends without looking for the name.
WorkersAdd_noLookup(ws, p) == [ws EXCEPT !.list = Append(@, p)]

\* workers.add: the object afterwards (the count returned is Len of its list).
WorkersAdd(ws, p) ==
  IF IndexOf(ws.list, p.name) # 0
  THEN ws
  ELSE [ws EXCEPT !.list = Append(@, p)]

\* A variant of workers.available that counts a pool whatever it holds.
WorkersAvailable_anyPool(ws) == Len(ws.list) >= 0

\* workers.available
WorkersAvailable(ws) == Len(ws.list) > 0

\* A variant of workers.next that wraps to the first peer without advancing
\* the cursor past it.
WorkersNext_wrapStays(ws) ==
  LET length == Len(ws.list)
      current == ws.current
  IN  IF length = 0 THEN [ws |-> ws, p |-> NoPeer]
      ELSE IF current < length
           THEN [ws |-> [ws EXCEPT !.current = current + 1],
                 p |-> ws.list[current + 1]]
           ELSE [ws |-> [ws EXCEPT !.current = 0], p |-> ws.list[1]]

\* A variant of workers.next that clamps a cursor beyond the list to the last
\* peer.
WorkersNext_clamps(ws) ==
  LET length == Len(ws.list)
      current == ws.current
  IN  IF length = 0 THEN [ws |-> ws, p |-> NoPeer]
      ELSE IF current < length
           THEN [ws |-> [ws EXCEPT !.current = current + 1],
                 p |-> ws.list[current + 1]]
           ELSE [ws |-> [ws EXCEPT !.current = length], p |-> ws.list[length]]

\* workers.next: the object afterwards and the peer returned (NoPeer is nil).
\* Go indexes from 0: list[current] is the (current + 1)-th element here.
WorkersNext(ws) ==
  LET length == Len(ws.list)
      current == ws.current
  IN  IF length = 0 THEN [ws |-> ws, p |-> NoPeer]
      ELSE IF current < length
           THEN [ws |-> [ws EXCEPT !.current = current + 1],
                 p |-> ws.list[current + 1]]
           ELSE [ws |-> [ws EXCEPT !.current = 1], p |-> ws.list[1]]

\* A variant of workers.remove that rewinds the cursor when the name is absent.
WorkersRemove_absentRewinds(ws, name) ==
  LET i == IndexOf(ws.list, name)
  IN  IF i = 0
      THEN [ws |-> [ws EXCEPT !.current = 0], n |-> Len(ws.list),
            p |-> NoPeer]
      ELSE LET list == SubSeq(ws.list, 1, i - 1) \o
                       SubSeq(ws.list, i + 1, Len(ws.list))
           IN  [ws |-> [ws EXCEPT !.list = list], n |-> Len(list),
                p |-> ws.list[i]]

\* A variant of workers.remove that moves the cursor to the end of the list
\* that remains.
WorkersRemove_normalizes(ws, name) ==
  LET i == IndexOf(ws.list, name)
  IN  IF i = 0 THEN [ws |-> ws, n |-> Len(ws.list), p |-> NoPeer]
      ELSE LET list == SubSeq(ws.list, 1, i - 1) \o
                       SubSeq(ws.list, i + 1, Len(ws.list))
           IN  [ws |-> [ws EXCEPT !.list = list, !.current = Len(list)],
                n |-> Len(list), p |-> ws.list[i]]

\* workers.remove: the object afterwards, the remaining count and the peer.
WorkersRemove(ws, name) ==
  LET i == IndexOf(ws.list, name)
  IN  IF i = 0 THEN [ws |-> ws, n |-> Len(ws.list), p |-> NoPeer]
      ELSE LET list == SubSeq(ws.list, 1, i - 1) \o
                       SubSeq(ws.list, i + 1, Len(ws.list))
           IN  [ws |-> [ws EXCEPT !.list = list], n |-> Len(list),
                p |-> ws.list[i]]

\* -------------------------------------------------------------- pool.go
\* pool.add, pool.get (ok), pool.remove on the service map.
PoolAdd(m, service) ==
  IF service \in DOMAIN m THEN m
  ELSE [s \in DOMAIN m \cup {service} |->
          IF s = service THEN newWorkers ELSE m[s]]

PoolHas(m, service) == service \in DOMAIN m

\* A variant of pool.remove that keeps the service with a fresh, empty pool.
PoolRemove_keepsEmpty(m, service) ==
  [s \in DOMAIN m |-> IF s = service THEN newWorkers ELSE m[s]]

PoolRemove(m, service) == [s \in DOMAIN m \ {service} |-> m[s]]

\* ------------------------------------------------- strconv.FormatInt(n, 16)
HexDigit(d) ==
  <<"0", "1", "2", "3", "4", "5", "6", "7",
    "8", "9", "a", "b", "c", "d", "e", "f">>[d + 1]

RECURSIVE FormatInt(_)
FormatInt(n) ==
  IF n < 16 THEN <<HexDigit(n)>>
  ELSE Append(FormatInt(n \div 16), HexDigit(n % 16))

\* ------------------------------------------------- values on a Do channel
\* What a Do call reads from its channel: an *http.Response or nil.  The
\* response is the answer to the request of the call `from`; the nil sentinel
\* remembers the call whose timer published it.
NoRes == [kind |-> "none", from |-> 0]
Response(c) == [kind |-> "res", from |-> c]
NilRes(c) == [kind |-> "nil", from |-> c]

NoCall ==
  [to |-> "", scheme |-> "", handle |-> <<>>, tmp |-> 0, peers |-> "",
   detached |-> FALSE, p |-> NoPeer, res |-> NoRes, err |-> <<>>]

NoEvent == [type |-> "", name |-> "", node |-> "", service |-> ""]

NoWait == [required |-> {}, todo |-> {}, peers |-> "", detached |-> FALSE,
           available |-> 0, site |-> "", err |-> <<>>]

NoClose == [pc |-> "idle", err |-> <<>>]

\* A nil dereference (client.go:151) ends the whole process.
Running == \A c \in Calls : pc[c] # "panic"

\* The listener mutex is free unless a publisher is stuck inside it.
ListenerFree == blocked = {}

\* The request of call c has been handed to the fabric (client.go:152).
Whispered(c) ==
  \/ pc[c] \in {"listen", "wait"}
  \/ pc[c] = "done" /\ call[c].err \in {<<>>, <<errTimeout>>}

MapPut(m, k, v) == [x \in DOMAIN m \cup {k} |-> IF x = k THEN v ELSE m[x]]
MapDel(m, k) == [x \in DOMAIN m \ {k} |-> m[x]]

\* ------------------------------------------------------------ Client.Do
\* Calls are numbered in the order in which they are invoked.  A local that
\* the rest of Do no longer reads is reset when it dies.
\* client.go:130-136: the read of c.handle.  Nothing reads the request's URL
\* before the lines that test it: its scheme and host are drawn there.
Do_handle(c) ==
  /\ Running /\ pc[c] = "idle"
  /\ \A k \in Calls : k < c => pc[k] # "idle"
  /\ IF closed
     THEN /\ call' = [call EXCEPT ![c] =
                       [NoCall EXCEPT
                          !.err = escalate(newError(errClosed), errDo)]]
          /\ pc' = [pc EXCEPT ![c] = "done"]
     ELSE /\ call' = [call EXCEPT ![c] =
                       [NoCall EXCEPT !.handle = FormatInt(handle)]]
          /\ pc' = [pc EXCEPT ![c] = "incr_read"]
  /\ UNCHANGED <<handle, handles, chan, blocked, timer, frames>>
  /\ UNCHANGED <<regVars, waitVars, poolVars, closeVars, serveVars, lockVars>>

\* client.go:137: c.handle++ is an unsynchronized load ...
Do_incr_read(c) ==
  /\ Running /\ pc[c] = "incr_read"
  /\ call' = [call EXCEPT ![c].tmp = handle]
  /\ pc' = [pc EXCEPT ![c] = "incr_write"]
  /\ UNCHANGED <<handle, handles, chan, blocked, timer, frames>>
  /\ UNCHANGED <<regVars, waitVars, poolVars, closeVars, serveVars, lockVars>>

\* ... and an unsynchronized store; client.go:138-141: the scheme check.
Do_incr_write(c) ==
  /\ Running /\ pc[c] = "incr_write"
  /\ handle' = call[c].tmp + 1
  /\ \E sch \in Schemes :
       IF sch # scheme
       THEN /\ call' = [call EXCEPT ![c].tmp = 0, ![c].scheme = sch,
                                    ![c].err = <<errScheme>>]
            /\ pc' = [pc EXCEPT ![c] = "done"]
       ELSE /\ call' = [call EXCEPT ![c].tmp = 0, ![c].scheme = sch]
            /\ pc' = [pc EXCEPT ![c] = "get"]
  /\ UNCHANGED <<handles, chan, blocked, timer, frames>>
  /\ UNCHANGED <<regVars, waitVars, poolVars, closeVars, serveVars, lockVars>>

\* client.go:142-149: c.services.get(to).
Do_get(c) ==
  /\ Running /\ pc[c] = "get"
  /\ \E to \in Services :
       IF PoolHas(workers, to)
       THEN /\ call' = [call EXCEPT ![c].to = to, ![c].peers = to]
            /\ pc' = [pc EXCEPT ![c] = "next"]
       ELSE /\ call' = [call EXCEPT ![c].to = to,
                                    ![c].err = <<errUnknownService>>]
            /\ pc' = [pc EXCEPT ![c] = "done"]
  /\ UNCHANGED <<handle, handles, chan, blocked, timer, frames>>
  /\ UNCHANGED <<regVars, waitVars, poolVars, closeVars, serveVars, lockVars>>

\* The workers object a reference obtained from get() denotes: the one in the
\* service map, or, once pool.remove has unlinked it, an object that is empty
\* (Client.remove unlinks a pool only when no peer remains) and stays empty.
Deref(service, detached) ==
  IF detached THEN newWorkers ELSE workers[service]

\* client.go:150-151: peers.next(), then p.name is read (nil panics).
Do_next(c) ==
  /\ Running /\ pc[c] = "next"
  /\ LET r == WorkersNext(Deref(call[c].peers, call[c].detached))
     IN  /\ IF call[c].detached THEN UNCHANGED workers
            ELSE workers' = [workers EXCEPT ![call[c].peers] = r.ws]
         /\ call' = [call EXCEPT ![c].p = r.p, ![c].peers = "",
                                 ![c].detached = FALSE]
         /\ pc' = [pc EXCEPT ![c] = IF r.p = NoPeer THEN "panic" ELSE "whisper"]
  /\ UNCHANGED <<handle, handles, chan, blocked, timer, frames>>
  /\ UNCHANGED <<directory, dpc, dev, derr, waitVars, poolVars,
                 closeVars, serveVars, lockVars>>

\* A variant of Do that registers the slot and starts the timer before the
\* whisper and leaves them behind when the whisper fails.
Do_whisper_leavesSlot(c) ==
  /\ Running /\ pc[c] = "whisper"
  /\ \E ok \in BOOLEAN :
       IF ok
       THEN /\ pc' = [pc EXCEPT ![c] = "listen"]
            /\ call' = [call EXCEPT ![c].p = NoPeer]
            /\ UNCHANGED <<handles, timer>>
       ELSE /\ pc' = [pc EXCEPT ![c] = "done"]
            /\ call' = [call EXCEPT ![c].p = NoPeer,
                                    ![c].err = <<errReqWhisper>>]
            /\ handles' = MapPut(handles, call[c].handle, c)
            /\ timer' = [timer EXCEPT ![c] = "armed"]
  /\ UNCHANGED <<handle, chan, blocked, frames>>
  /\ UNCHANGED <<regVars, waitVars, poolVars, closeVars, serveVars, lockVars>>

\* client.go:152-154: c.node.Whisper(p.node, payload) succeeds or fails.
Do_whisper(c) ==
  /\ Running /\ pc[c] = "whisper"
  /\ \E ok \in BOOLEAN :
       IF ok
       THEN /\ pc' = [pc EXCEPT ![c] = "listen"]
            /\ call' = [call EXCEPT ![c].p = NoPeer]
       ELSE /\ pc' = [pc EXCEPT ![c] = "done"]
            /\ call' = [call EXCEPT ![c].p = NoPeer,
                                    ![c].err = <<errReqWhisper>>]
  /\ UNCHANGED <<handle, handles, chan, blocked, timer, frames>>
  /\ UNCHANGED <<regVars, waitVars, poolVars, closeVars, serveVars, lockVars>>

\* Client.listen (client.go:155-156, 175-180): register the channel under
\* the handle and start the timeout goroutine.
listen(c) ==
  /\ Running /\ pc[c] = "listen" /\ ListenerFree
  /\ handles' = MapPut(handles, call[c].handle, c)
  /\ timer' = [timer EXCEPT ![c] = "armed"]
  /\ pc' = [pc EXCEPT ![c] = "wait"]
  /\ UNCHANGED <<handle, chan, blocked, call, frames>>
  /\ UNCHANGED <<regVars, waitVars, poolVars, closeVars, serveVars, lockVars>>

\* client.go:157-161: response := <-listener.
Do_return(c) ==
  /\ Running /\ pc[c] = "wait" /\ Len(chan[c]) > 0
  /\ chan' = [chan EXCEPT ![c] = Tail(@)]
  /\ call' = [call EXCEPT ![c].res = Head(chan[c]),
                          ![c].err = IF Head(chan[c]).kind = "nil"
                                     THEN <<errTimeout>> ELSE <<>>]
  /\ pc' = [pc EXCEPT ![c] = "done"]
  /\ UNCHANGED <<handle, handles, blocked, timer, frames>>
  /\ UNCHANGED <<regVars, waitVars, poolVars, closeVars, serveVars, lockVars>>

\* A send on a channel of capacity 1: it completes if the buffer has room and
\* otherwise leaves the sender stuck inside its critical section.
Publish(who, k, v) ==
  IF Len(chan[k]) < 1
  THEN /\ chan' = [chan EXCEPT ![k] = Append(@, v)]
       /\ UNCHANGED blocked
  ELSE /\ blocked' = blocked \cup {who}
       /\ UNCHANGED chan

\* A variant of Client.timeout that publishes nil and leaves the slot in the
\* table.
timeout_keepsSlot(c) ==
  /\ Running /\ timer[c] = "armed" /\ ListenerFree
  /\ timer' = [timer EXCEPT ![c] = "fired"]
  /\ LET h == call[c].handle
     IN  IF h \in DOMAIN handles
         THEN /\ Publish("timeout", handles[h], NilRes(c))
              /\ UNCHANGED handles
         ELSE UNCHANGED <<handles, chan, blocked>>
  /\ UNCHANGED <<handle, pc, call, frames>>
  /\ UNCHANGED <<regVars, waitVars, poolVars, closeVars, serveVars, lockVars>>

\* Client.timeout (client.go:218-226), once time.After has fired.
timeout(c) ==
  /\ Running /\ timer[c] = "armed" /\ ListenerFree
  /\ timer' = [timer EXCEPT ![c] = "fired"]
  /\ LET h == call[c].handle
     IN  IF h \in DOMAIN handles
         THEN /\ Publish("timeout", handles[h], NilRes(c))
              /\ handles' = MapDel(handles, h)
         ELSE UNCHANGED <<handles, chan, blocked>>
  /\ UNCHANGED <<handle, pc, call, frames>>
  /\ UNCHANGED <<regVars, waitVars, poolVars, closeVars, serveVars, lockVars>>

\* A variant of Client.receive that publishes and leaves the slot in the table.
Receive_keepsSlot(h, res) ==
  IF h \in DOMAIN handles
  THEN /\ Publish("receive", handles[h], res)
       /\ UNCHANGED <<handles, dpc, derr>>
  ELSE /\ derr' = <<errRECV, errDispatch>>
       /\ dpc' = "log"
       /\ UNCHANGED <<handles, chan, blocked>>

\* A variant of Client.receive that drops a response to an unknown handle
\* without an error.
Receive_silent(h, res) ==
  IF h \in DOMAIN handles
  THEN /\ Publish("receive", handles[h], res)
       /\ handles' = MapDel(handles, h)
       /\ UNCHANGED <<dpc, derr>>
  ELSE UNCHANGED <<handles, chan, blocked, dpc, derr>>

\* Client.receive (client.go:182-195) of the response frame h, res.
Receive(h, res) ==
  IF h \in DOMAIN handles
  THEN /\ Publish("receive", handles[h], res)
       /\ handles' = MapDel(handles, h)
       /\ UNCHANGED <<dpc, derr>>
  ELSE /\ derr' = <<errRECV, errDispatch>>
       /\ dpc' = "log"
       /\ UNCHANGED <<handles, chan, blocked>>

\* A variant of the dispatcher that takes the next event from the fabric
\* while the handler it called has yet to return.
Event_whisper_whileServing(c) ==
  /\ Running /\ dpc \in {"idle", "serve"} /\ ListenerFree
  /\ Whispered(c) /\ frames < MaxFrames
  /\ frames' = frames + 1
  /\ Receive(call[c].handle, Response(c))
  /\ UNCHANGED <<handle, pc, call, timer>>
  /\ UNCHANGED <<directory, workers, dev, waitVars, poolVars,
                 closeVars, serveVars, lockVars>>

\* sleuth.go listen/dispatch and Client.dispatch for a whisper event carrying
\* a response frame: the peer that got the request of call c answers it with
\* the handle the request carried (writer.go:45-53).  With the channel full
\* the dispatcher stays inside receive.
Event_whisper(c) ==
  /\ Running /\ dpc = "idle" /\ ListenerFree
  /\ Whispered(c) /\ frames < MaxFrames
  /\ frames' = frames + 1
  /\ Receive(call[c].handle, Response(c))
  /\ UNCHANGED <<handle, pc, call, timer>>
  /\ UNCHANGED <<directory, workers, dev, waitVars, poolVars,
                 closeVars, serveVars, lockVars>>

\* ---------------------------------------------------- framing of payloads
\* zip.go: a gzip stream is its header followed by the data; unzip of bytes
\* that do not begin with the header fails with [errUnzip].
zip(in) == <<"gz">> \o in

unzip(in) ==
  IF Len(in) > 0 /\ in[1] = "gz"
  THEN [out |-> Tail(in), err |-> <<>>]
  ELSE [out |-> <<>>, err |-> newError(errUnzip)]

\* strconv on the status code: its decimal digits, and back.
DecDigit(d) == <<"0", "1", "2", "3", "4", "5", "6", "7", "8", "9">>[d + 1]

RECURSIVE Itoa(_)
Itoa(n) ==
  IF n < 10 THEN <<DecDigit(n)>>
  ELSE Append(Itoa(n \div 10), DecDigit(n % 10))

RECURSIVE Atoi(_)
Atoi(s) ==
  IF s = <<>> THEN 0
  ELSE 10 * Atoi(SubSeq(s, 1, Len(s) - 1))
       + (CHOOSE d \in 0..9 : DecDigit(d) = s[Len(s)])

\* encoding/json on the response and request schemas: an object is its field
\* values, in the order of their keys, separated by commas between braces.
RECURSIVE Join(_)
Join(fields) ==
  IF fields = <<>> THEN <<>>
  ELSE IF Len(fields) = 1 THEN fields[1]
  ELSE fields[1] \o <<",">> \o Join(Tail(fields))

jsonMarshal(fields) == <<"{">> \o Join(fields) \o <<"}">>

RECURSIVE Split(_)
Split(text) ==
  IF \A i \in 1..Len(text) : text[i] # ","
  THEN <<text>>
  ELSE LET k == CHOOSE i \in 1..Len(text) :
                  text[i] = "," /\ \A j \in 1..(i - 1) : text[j] # ","
       IN  <<SubSeq(text, 1, k - 1)>> \o Split(SubSeq(text, k + 1, Len(text)))

\* json.Unmarshal into a struct of n fields.
jsonUnmarshal(text, n) ==
  IF /\ Len(text) >= 2 /\ text[1] = "{" /\ text[Len(text)] = "}"
     /\ Len(Split(SubSeq(text, 2, Len(text) - 1))) = n
  THEN [fields |-> Split(SubSeq(text, 2, Len(text) - 1)), ok |-> TRUE]
  ELSE [fields |-> <<>>, ok |-> FALSE]

\* []byte(group) for the groups of the model.
Bytes(g) == IF g = "" THEN <<>> ELSE groupBytes

\* response.go:14-19: the fields body, code, handle, header of a response.
NoOutput == [Body |-> <<>>, Code |-> 0, Handle |-> <<>>, Header |-> <<>>]

\* response.go:27-31 and response.go:33-53.
resMarshal(g, res) ==
  Bytes(g) \o recv
    \o zip(jsonMarshal(<<res.Body, Itoa(res.Code), res.Handle, res.Header>>))

resUnmarshal(p) ==
  LET unzipped == unzip(p)
      in == jsonUnmarshal(unzipped.out, 4)
  IN  IF unzipped.err # <<>>
      THEN [handle |-> <<>>, res |-> NoOutput,
            err |-> escalate(unzipped.err, errResUnmarshal)]
      ELSE IF ~in.ok
      THEN [handle |-> <<>>, res |-> NoOutput,
            err |-> newError(errResUnmarshalJSON)]
      ELSE [handle |-> in.fields[3],
            res |-> [Body |-> in.fields[1], Code |-> Atoi(in.fields[2]),
                     Handle |-> in.fields[3], Header |-> in.fields[4]],
            err |-> <<>>]

\* destination.go:8-12.
NoDest == [group |-> "", handle |-> <<>>, node |-> <<>>]

\* request.go:23-44: the fields destination, handle, method of a request
\* (body, header and url play no part in the routing of the answer).
reqMarshal(g, dest, h, method) ==
  Bytes(g) \o repl \o zip(jsonMarshal(<<dest, h, method>>))

\* request.go:46-65: http.NewRequest rejects a method that is no token.
reqUnmarshal(g, p) ==
  LET unzipped == unzip(p)
      in == jsonUnmarshal(unzipped.out, 3)
  IN  IF unzipped.err # <<>>
      THEN [dest |-> NoDest, err |-> escalate(unzipped.err, errReqUnmarshal)]
      ELSE IF ~in.ok
      THEN [dest |-> NoDest, err |-> newError(errReqUnmarshalJSON)]
      ELSE IF \E i \in 1..Len(in.fields[3]) : in.fields[3][i] = " "
      THEN [dest |-> NoDest, err |-> newError(errReqUnmarshalHTTP)]
      ELSE [dest |-> [group |-> g, handle |-> in.fields[2],
                      node |-> in.fields[1]],
            err |-> <<>>]

\* The fabric addresses (UUIDs) of the peers, as bytes.
Address(name) == <<"u", "-">> \o <<name>>

\* The requests the Do calls of the peers send to this client.
Requests ==
  {reqMarshal(group, Address(name), h, <<"G", "E", "T">>) :
     name \in Names, h \in {<<"0">>, <<"1", "f">>}}

\* ------------------------------------------------------------ writer.go
\* writer.go:13-19 and the last return of Write.
NoWriter ==
  [group |-> "", output |-> NoOutput, peer |-> <<>>, writes |-> 0,
   n |-> 0, err |-> <<>>]

\* A variant of newWriter that leaves the handle of the output empty.
newWriter_noHandle(dest) ==
  [NoWriter EXCEPT !.group = dest.group, !.peer = dest.node]

\* writer.go:45-53.
newWriter(dest) ==
  [NoWriter EXCEPT !.group = dest.group, !.output.Handle = dest.handle,
                   !.peer = dest.node]

\* http.DetectContentType on the bodies of the model.
DetectContentType(data) == <<"text/plain; charset=utf-8">>

\* The whisper payloads peers send besides the responses to the client's own
\* requests: too short, of another group, of an unknown kind, a request
\* (well-formed or not), and responses to a handle the client never issued.
Payloads ==
  { <<>>,
    groupBytes,
    groupBytes \o <<"R", "E", "C">>,
    <<"S", "L", "E", "U", "T", "H", "-", "v", "T">> \o recv
      \o zip(jsonMarshal(<<<<>>, Itoa(200), <<"f">>, <<>>>>)),
    groupBytes \o <<"F", "A", "I", "L">>,
    groupBytes \o <<"r", "e", "c", "v">>
      \o zip(jsonMarshal(<<<<>>, Itoa(200), <<"f">>, <<>>>>)),
    reqMarshal(group, Address("n1"), <<"0">>, <<"G", "E", "T">>),
    reqMarshal(group, Address("n1"), <<"0">>, <<"G", " ", "T">>),
    groupBytes \o repl \o zip(<<"{">>),
    groupBytes \o repl,
    groupBytes \o repl \o <<"x">>,
    resMarshal(group, [NoOutput EXCEPT !.Code = 200, !.Handle = <<"f">>]),
    groupBytes \o recv \o zip(<<"}">>),
    groupBytes \o recv \o <<"x">> }

\* A variant of dispatch that hands the failure to the waiting Do calls as a
\* nil response.
Fail_toCallers(e) ==
  /\ derr' = escalate(e, errDispatch)
  /\ dpc' = "log"
  /\ chan' = [c \in Calls |->
                IF pc[c] = "wait" /\ chan[c] = <<>>
                THEN <<NilRes(c)>> ELSE chan[c]]
  /\ UNCHANGED <<handles, blocked, served, serveVars, lockVars>>

\* dispatch (sleuth.go) escalates the error Client.dispatch returned.
Fail(e) ==
  /\ derr' = escalate(e, errDispatch)
  /\ dpc' = "log"
  /\ UNCHANGED <<handles, chan, blocked, served, serveVars, lockVars>>

\* Client.receive (client.go:182-195) from the payload on.
ReceivePayload(p) ==
  LET r == resUnmarshal(p)
  IN  IF r.err # <<>>
      THEN Fail(escalate(r.err, errRECV))
      ELSE Receive(r.handle, Response(0)) /\ UNCHANGED <<served,
                                                         serveVars, lockVars>>

\* Client.reply (client.go:209-216): the handler is invoked with a new
\* writer; dispatch returns when the handler does.
Reply(p) ==
  LET r == reqUnmarshal(group, p)
  IN  IF r.err # <<>>
      THEN Fail(escalate(r.err, errREPL))
      ELSE /\ served < MaxServed
           /\ served' = served + 1
           /\ wr' = newWriter(r.dest)
           /\ sent' = <<>>
           /\ dpc' = "serve"
           /\ UNCHANGED <<handles, chan, blocked, derr>>

\* A variant of Client.dispatch that takes a payload of an unknown kind for a
\* response.
ClientDispatch_defaultRecv(payload) ==
  LET groupLength == Len(groupBytes)
      dispatchLength == 4
      headerLength == groupLength + dispatchLength
  IN  IF \/ Len(payload) < headerLength
         \/ SubSeq(payload, 1, groupLength) # groupBytes
      THEN Fail(newError(errDispatchHeader))
      ELSE LET action == SubSeq(payload, groupLength + 1, headerLength)
               rest == SubSeq(payload, headerLength + 1, Len(payload))
           IN  CASE action = repl -> Reply(rest)
                 [] OTHER -> ReceivePayload(rest)

\* Client.dispatch (client.go:102-121).
ClientDispatch(payload) ==
  LET groupLength == Len(groupBytes)
      dispatchLength == 4
      headerLength == groupLength + dispatchLength
  IN  IF \/ Len(payload) < headerLength
         \/ SubSeq(payload, 1, groupLength) # groupBytes
      THEN Fail(newError(errDispatchHeader))
      ELSE LET action == SubSeq(payload, groupLength + 1, headerLength)
               rest == SubSeq(payload, headerLength + 1, Len(payload))
           IN  CASE action = recv -> ReceivePayload(rest)
                 [] action = repl -> Reply(rest)
                 [] OTHER -> Fail(newError(errDispatchAction))

\* sleuth.go dispatch of a whisper event with any other payload.
Event_frame(payload) ==
  /\ Running /\ dpc = "idle" /\ ListenerFree
  /\ ClientDispatch(payload)
  /\ UNCHANGED <<handle, pc, call, timer, frames>>
  /\ UNCHANGED <<directory, workers, dev, waitVars, poolVars>>
  /\ UNCHANGED <<closed, gyre, close, lockVars>>

\* writer.WriteHeader (writer.go:41-43), called by the handler.
WriteHeader(code) ==
  /\ Running /\ dpc = "serve"
  /\ wr' = [wr EXCEPT !.output.Code = code]
  /\ UNCHANGED <<sent, served, closed, gyre, close>>
  /\ UNCHANGED <<doVars, regVars, waitVars, poolVars, lockVars>>

\* A variant of writer.Write that reports the bytes as written when the
\* whisper fails.
WriterWrite_ignoresWhisper(data, ok) ==
  LET output == [wr.output EXCEPT
                   !.Code = IF @ = 0 THEN 200 ELSE @,
                   !.Header = IF @ = <<>> THEN DetectContentType(data) ELSE @,
                   !.Body = data]
      payload == resMarshal(wr.group, output)
  IN  /\ wr' = [wr EXCEPT !.output = output, !.writes = @ + 1,
                          !.n = Len(data), !.err = <<>>]
      /\ sent' = IF ok THEN Append(sent, [to |-> wr.peer, payload |-> payload])
                 ELSE sent

\* writer.Write (writer.go:25-39): the status defaults to 200, the content
\* type is sniffed, the body is set, the response is marshalled and whispered
\* to the peer of the writer; ok is the outcome of that whisper.
WriterWrite(data, ok) ==
  LET output == [wr.output EXCEPT
                   !.Code = IF @ = 0 THEN 200 ELSE @,
                   !.Header = IF @ = <<>> THEN DetectContentType(data) ELSE @,
                   !.Body = data]
      payload == resMarshal(wr.group, output)
  IN  IF ok
      THEN /\ wr' = [wr EXCEPT !.output = output, !.writes = @ + 1,
                               !.n = Len(data), !.err = <<>>]
           /\ sent' = Append(sent, [to |-> wr.peer, payload |-> payload])
      ELSE /\ wr' = [wr EXCEPT !.output = output, !.writes = @ + 1,
                               !.n = 0, !.err = newError(errResWhisper)]
           /\ UNCHANGED sent

\* The handler calls Write on its writer.
Write(data) ==
  /\ Running /\ dpc = "serve" /\ wr.writes < MaxWrites
  /\ \E ok \in BOOLEAN : WriterWrite(data, ok)
  /\ UNCHANGED <<served, closed, gyre, close>>
  /\ UNCHANGED <<doVars, regVars, waitVars, poolVars, lockVars>>

\* The handler returns (client.go:214-215): reply and dispatch return nil.
serve_return ==
  /\ Running /\ dpc = "serve"
  /\ dpc' = "idle"
  /\ wr' = NoWriter /\ sent' = <<>>
  /\ UNCHANGED <<directory, workers, dev, derr, doVars, waitVars, poolVars,
                 closeVars, lockVars>>

\* sleuth.go:225-227: the loop logs the error dispatch returned and goes on.
log_error ==
  /\ Running /\ dpc = "log"
  /\ dpc' = "idle" /\ derr' = <<>>
  /\ UNCHANGED <<directory, workers, dev, doVars, waitVars, poolVars,
                 closeVars, serveVars, lockVars>>

\* client.go:44-45: add writes a debug line about the peer of another group
\* and returns nil; dispatch returns nil to the loop.
log_debug ==
  /\ Running /\ dpc = "debug"
  /\ dpc' = "idle"
  /\ UNCHANGED <<directory, workers, dev, derr, doVars, waitVars, poolVars,
                 closeVars, serveVars, lockVars>>

\* A variant of Client.add that registers the peers of every group.
Event_enter_anyGroup(g, name, node, service) ==
  /\ Running /\ dpc = "idle" /\ ListenerFree
  /\ IF node = "" \/ service = ""
     THEN /\ derr' = escalate(newError(errAdd), errDispatch)
          /\ dpc' = "log"
          /\ UNCHANGED <<directory, workers, dev>>
     ELSE /\ directory' = MapPut(directory, name, service)
          /\ workers' = PoolAdd(workers, service)
          /\ dpc' = "add_worker"
          /\ dev' = [type |-> "enter", name |-> name, node |-> node,
                     service |-> service]
          /\ UNCHANGED derr
  /\ UNCHANGED <<doVars, waitVars, poolVars, closeVars, serveVars, lockVars>>

\* A variant of Client.add that requires the service header only.
Event_enter_nodeOptional(g, name, node, service) ==
  /\ Running /\ dpc = "idle" /\ ListenerFree
  /\ IF g # group
     THEN /\ dpc' = "debug"
          /\ UNCHANGED <<directory, workers, dev, derr>>
     ELSE IF service = ""
     THEN /\ derr' = escalate(newError(errAdd), errDispatch)
          /\ dpc' = "log"
          /\ UNCHANGED <<directory, workers, dev>>
     ELSE /\ directory' = MapPut(directory, name, service)
          /\ workers' = PoolAdd(workers, service)
          /\ dpc' = "add_worker"
          /\ dev' = [type |-> "enter", name |-> name, node |-> node,
                     service |-> service]
          /\ UNCHANGED derr
  /\ UNCHANGED <<doVars, waitVars, poolVars, closeVars, serveVars, lockVars>>

\* ------------------------------------------- Client.add (client.go:42-62)
\* sleuth.go dispatch of an enter event, up to and including
\* c.services.add(service).  The directory is touched by the dispatcher only.
Event_enter(g, name, node, service) ==
  /\ Running /\ dpc = "idle" /\ ListenerFree
  /\ IF g # group
     THEN /\ dpc' = "debug"
          /\ UNCHANGED <<directory, workers, dev, derr>>
     ELSE IF node = "" \/ service = ""
     THEN /\ derr' = escalate(newError(errAdd), errDispatch)
          /\ dpc' = "log"
          /\ UNCHANGED <<directory, workers, dev>>
     ELSE /\ directory' = MapPut(directory, name, service)
          /\ workers' = PoolAdd(workers, service)
          /\ dpc' = "add_worker"
          /\ dev' = [type |-> "enter", name |-> name, node |-> node,
                     service |-> service]
          /\ UNCHANGED derr
  /\ UNCHANGED <<doVars, waitVars, poolVars, closeVars, serveVars, lockVars>>

\* client.go:57-58: c.services.workers[service].add(p).
add_worker ==
  /\ Running /\ dpc = "add_worker"
  /\ workers' = [workers EXCEPT ![dev.service] =
                   WorkersAdd(@, Peer(dev.name, dev.node, dev.service))]
  /\ dpc' = "notify"
  /\ UNCHANGED <<directory, dev, derr, doVars, waitVars, poolVars,
                 closeVars, serveVars, lockVars>>

\* A variant of notifier.notify that offers its value on the stream whether
\* the notifier is active or not.
notify_idle_offers ==
  /\ Running /\ dpc = "notify" /\ ~active
  /\ dpc' = "send"
  /\ UNCHANGED <<directory, workers, dev, derr, doVars, waitVars, poolVars,
                 closeVars, serveVars, lockVars>>

\* notifier.notify (client.go:59) while the notifier is not active: the
\* mutex is taken and released, nothing is sent, add returns nil.
notify_idle ==
  /\ Running /\ dpc = "notify" /\ ~active
  /\ dpc' = "idle" /\ dev' = NoEvent
  /\ UNCHANGED <<directory, workers, derr, doVars, waitVars, poolVars,
                 closeVars, serveVars, lockVars>>

\* notifier.notify while active: the dispatcher holds the notifier mutex and
\* offers a value on the unbuffered stream.
notify_send ==
  /\ Running /\ dpc = "notify" /\ active
  /\ dpc' = "send"
  /\ UNCHANGED <<directory, workers, dev, derr, doVars, waitVars,
                 poolVars, closeVars, serveVars, lockVars>>

\* The notifier mutex is held only by a notify() blocked on its send.
NotifierFree == dpc # "send"

\* ---------------------------------------- Client.remove (client.go:197-207)
\* sleuth.go dispatch of an exit or leave event: the directory lookup and
\* c.services.get(service).
Event_exit(name) ==
  /\ Running /\ dpc = "idle" /\ ListenerFree
  /\ IF name \notin DOMAIN directory
     THEN UNCHANGED <<directory, dpc, dev>>
     ELSE IF PoolHas(workers, directory[name])
     THEN /\ dpc' = "remove_worker"
          /\ dev' = [type |-> "exit", name |-> name, node |-> "",
                     service |-> directory[name]]
          /\ UNCHANGED directory
     ELSE /\ directory' = MapDel(directory, name)
          /\ UNCHANGED <<dpc, dev>>
  /\ UNCHANGED <<workers, derr, doVars, waitVars, poolVars,
                 closeVars, serveVars, lockVars>>

\* client.go:200: peers.remove(name); with peers left, client.go:204.
remove_worker ==
  /\ Running /\ dpc = "remove_worker"
  /\ LET r == WorkersRemove(workers[dev.service], dev.name)
     IN  /\ workers' = [workers EXCEPT ![dev.service] = r.ws]
         /\ IF r.n = 0
            THEN /\ dpc' = "remove_pool"
                 /\ UNCHANGED <<directory, dev>>
            ELSE /\ dpc' = "idle" /\ dev' = NoEvent
                 /\ directory' = MapDel(directory, dev.name)
  /\ UNCHANGED <<derr, doVars, waitVars, poolVars,
                 closeVars, serveVars, lockVars>>

\* client.go:201-204: c.services.remove(service), delete(c.directory, name).
\* References to the unlinked workers object held by a Do or a has() in
\* progress now denote a detached object.
remove_pool ==
  /\ Running /\ dpc = "remove_pool"
  /\ workers' = PoolRemove(workers, dev.service)
  /\ directory' = MapDel(directory, dev.name)
  /\ call' = [c \in Calls |->
                IF call[c].peers = dev.service
                THEN [call[c] EXCEPT !.detached = TRUE] ELSE call[c]]
  /\ wloc' = [x \in ConcWaiters |->
                IF wloc[x].peers = dev.service
                THEN [wloc[x] EXCEPT !.detached = TRUE] ELSE wloc[x]]
  /\ dpc' = "idle" /\ dev' = NoEvent
  /\ UNCHANGED <<derr, handle, handles, chan, blocked, pc, timer,
                 frames, active, wpc, poolVars, closeVars, serveVars, lockVars>>

\* ------------------------------------- Client.WaitFor, Client.has, block
\* client.go:229-241: the required set; the first has() starts.
WaitFor(x) ==
  /\ Running /\ wpc[x] = "idle"
  /\ IF closed
     THEN /\ wloc' = [wloc EXCEPT ![x] =
                       [NoWait EXCEPT
                          !.err = escalate(newError(errClosed), errWait)]]
          /\ wpc' = [wpc EXCEPT ![x] = "done"]
     ELSE /\ \E required \in SUBSET Services :
               wloc' = [wloc EXCEPT ![x] =
                          [NoWait EXCEPT !.required = required,
                                         !.todo = required,
                                         !.site = "WaitFor"]]
          /\ wpc' = [wpc EXCEPT ![x] = "has"]
  /\ UNCHANGED <<active, doVars, regVars, poolVars,
                 closeVars, serveVars, lockVars>>

\* Where a has() that has gone through all required services continues:
\* client.go:241-244 from WaitFor, client.go:70-74 from block, client.go:76-80
\* inside the receive loop.
HasReturn(x, loc) ==
  LET ok == loc.available = Cardinality(loc.required)
      again == [loc EXCEPT !.todo = loc.required, !.available = 0]
  IN  CASE loc.site = "WaitFor" /\ ok ->
             /\ wpc' = [wpc EXCEPT ![x] = "done"]
             /\ wloc' = [wloc EXCEPT ![x] = loc]
        [] loc.site = "WaitFor" /\ ~ok ->
             /\ wpc' = [wpc EXCEPT ![x] = "has"]
             /\ wloc' = [wloc EXCEPT ![x] = [again EXCEPT !.site = "block"]]
        [] loc.site = "block" /\ ok ->
             /\ wpc' = [wpc EXCEPT ![x] = "done"]
             /\ wloc' = [wloc EXCEPT ![x] = loc]
        [] loc.site = "block" /\ ~ok ->
             /\ wpc' = [wpc EXCEPT ![x] = "activate"]
             /\ wloc' = [wloc EXCEPT ![x] = loc]
        [] loc.site = "loop" /\ ok ->
             /\ wpc' = [wpc EXCEPT ![x] = "deactivate"]
             /\ wloc' = [wloc EXCEPT ![x] = loc]
        [] loc.site = "loop" /\ ~ok ->
             /\ wpc' = [wpc EXCEPT ![x] = "recv"]
             /\ wloc' = [wloc EXCEPT ![x] = loc]

\* One iteration of has() ends: the next service, or the return.
HasStep(x, loc) ==
  IF loc.todo = {}
  THEN HasReturn(x, loc)
  ELSE /\ wpc' = [wpc EXCEPT ![x] = "has"]
       /\ wloc' = [wloc EXCEPT ![x] = loc]

\* client.go:167-168: c.services.get(service) for some service of the map
\* (Go iterates a map in no fixed order); has() of an empty set returns.
has_get(x) ==
  /\ Running /\ wpc[x] = "has"
  /\ IF wloc[x].todo = {}
     THEN HasReturn(x, wloc[x])
     ELSE \E service \in wloc[x].todo :
            IF PoolHas(workers, service)
            THEN /\ wpc' = [wpc EXCEPT ![x] = "available"]
                 /\ wloc' = [wloc EXCEPT ![x].peers = service]
            ELSE HasStep(x, [wloc[x] EXCEPT !.todo = @ \ {service}])
  /\ UNCHANGED <<active, doVars, regVars, poolVars,
                 closeVars, serveVars, lockVars>>

\* client.go:168-170: peers.available().
has_available(x) ==
  /\ Running /\ wpc[x] = "available"
  /\ LET loc == wloc[x]
         ok == WorkersAvailable(Deref(loc.peers, loc.detached))
     IN  HasStep(x, [loc EXCEPT !.todo = @ \ {loc.peers}, !.peers = "",
                                !.detached = FALSE,
                                !.available = IF ok THEN @ + 1 ELSE @])
  /\ UNCHANGED <<active, doVars, regVars, poolVars,
                 closeVars, serveVars, lockVars>>

\* notifier.activate (client.go:74).
activate(x) ==
  /\ Running /\ wpc[x] = "activate" /\ NotifierFree
  /\ active' = TRUE
  /\ wpc' = [wpc EXCEPT ![x] = "recv"]
  /\ UNCHANGED <<wloc, doVars, regVars, poolVars,
                 closeVars, serveVars, lockVars>>

\* client.go:75: a value is received from the stream; the notify() that sent
\* it returns and so does Client.add.  client.go:76: has() starts.
block_recv(x) ==
  /\ Running /\ wpc[x] = "recv" /\ dpc = "send"
  /\ dpc' = "idle" /\ dev' = NoEvent
  /\ wpc' = [wpc EXCEPT ![x] = "has"]
  /\ wloc' = [wloc EXCEPT ![x] = [wloc[x] EXCEPT
                                      !.todo = wloc[x].required,
                                      !.available = 0, !.site = "loop"]]
  /\ UNCHANGED <<active, directory, workers, derr, doVars, poolVars,
                 closeVars, serveVars, lockVars>>

\* notifier.deactivate (client.go:80); WaitFor returns nil.
deactivate(x) ==
  /\ Running /\ wpc[x] = "deactivate" /\ NotifierFree
  /\ active' = FALSE
  /\ wpc' = [wpc EXCEPT ![x] = "done"]
  /\ UNCHANGED <<wloc, doVars, regVars, poolVars,
                 closeVars, serveVars, lockVars>>

\* ------------------------------------ Client.Close (client.go:85-100)
\* client.go:88-91: the deferred function sets c.closed when Close returns;
\* a Close that finds the flag set returns [errClosed].
Close_check(k) ==
  /\ Running /\ close[k].pc = "idle"
  /\ \A j \in Closes : j < k => close[j].pc # "idle"
  /\ IF closed
     THEN /\ close' = [close EXCEPT ![k] =
                        [pc |-> "done", err |-> newError(errClosed)]]
          /\ closed' = TRUE
     ELSE /\ close' = [close EXCEPT ![k].pc = "leave"]
          /\ UNCHANGED closed
  /\ UNCHANGED <<gyre, served, doVars, regVars, waitVars, poolVars,
                 serveVars, lockVars>>

\* A variant of Close that sets the flag on its successful return only.
Close_leave_noDefer(k) ==
  /\ Running /\ close[k].pc = "leave"
  /\ gyre' = [gyre EXCEPT !.leave = @ + 1]
  /\ \E ok \in BOOLEAN :
       IF ok
       THEN close' = [close EXCEPT ![k].pc = "stop"]
       ELSE close' = [close EXCEPT ![k] =
                        [pc |-> "done", err |-> newError(errLeave)]]
  /\ UNCHANGED <<closed, served, doVars, regVars, waitVars, poolVars,
                 serveVars, lockVars>>

\* client.go:93-95: c.node.Leave(c.group) succeeds or fails; a failure is
\* returned as [errLeave] and the node is not stopped.
Close_leave(k) ==
  /\ Running /\ close[k].pc = "leave"
  /\ gyre' = [gyre EXCEPT !.leave = @ + 1]
  /\ \E ok \in BOOLEAN :
       IF ok
       THEN /\ close' = [close EXCEPT ![k].pc = "stop"]
            /\ UNCHANGED closed
       ELSE /\ close' = [close EXCEPT ![k] =
                          [pc |-> "done", err |-> newError(errLeave)]]
            /\ closed' = TRUE
  /\ UNCHANGED <<served, doVars, regVars, waitVars, poolVars,
                 serveVars, lockVars>>

\* client.go:96-99: c.node.Stop(), whose error is only logged; Close returns
\* nil and the deferred function sets the flag.
Close_stop(k) ==
  /\ Running /\ close[k].pc = "stop"
  /\ gyre' = [gyre EXCEPT !.stop = @ + 1]
  /\ close' = [close EXCEPT ![k].pc = "done"]
  /\ closed' = TRUE
  /\ UNCHANGED <<served, doVars, regVars, waitVars, poolVars,
                 serveVars, lockVars>>

\* ------------------------------------- a workers object on its own
\* The calls of the workers.go unit tests (newWorkers, add, remove, next) in
\* any order.  trace records what next() returned since the list last changed.
PeerNames == {"p" \o ToString(i) : i \in 1..MaxPeers}

NoRet == [op |-> "", n |-> 0, p |-> NoPeer]

\* The call that last changed the list: its name, the Go index of the peer
\* it appended or spliced out, and the cursor at that moment.
NoChange == [op |-> "", at |-> 0, current |-> 0]

w_add(name) ==
  /\ Len(w.list) < MaxPeers \/ name \in {w.list[i].name : i \in 1..Len(w.list)}
  /\ \E service \in Services :
       w' = WorkersAdd(w, Peer(name, NodeOf(name), service))
  /\ ret' = [op |-> "add", n |-> Len(w'.list), p |-> NoPeer]
  /\ trace' = IF w'.list = w.list THEN trace ELSE <<>>
  /\ changed' = IF w'.list = w.list THEN changed
                ELSE [op |-> "add", at |-> Len(w.list),
                      current |-> w.current]
  /\ UNCHANGED <<doVars, regVars, waitVars, closeVars, serveVars, lockVars>>

w_remove(name) ==
  /\ w' = WorkersRemove(w, name).ws
  /\ ret' = [op |-> "remove", n |-> WorkersRemove(w, name).n,
                p |-> WorkersRemove(w, name).p]
  /\ trace' = IF w'.list = w.list THEN trace ELSE <<>>
  /\ changed' = IF w'.list = w.list THEN changed
                ELSE [op |-> "remove", at |-> IndexOf(w.list, name) - 1,
                      current |-> w.current]
  /\ UNCHANGED <<doVars, regVars, waitVars, closeVars, serveVars, lockVars>>

w_next ==
  /\ Len(trace) < MaxTrace
  /\ w' = WorkersNext(w).ws
  /\ ret' = [op |-> "next", n |-> 0, p |-> WorkersNext(w).p]
  /\ trace' = Append(trace, WorkersNext(w).p)
  /\ UNCHANGED changed
  /\ UNCHANGED <<doVars, regVars, waitVars, closeVars, serveVars, lockVars>>

\* ------------------------------------------------- the client's mutexes
\* pool.Mutex (client.go:256), workers.Mutex of one pool (workers.go:64),
\* listener.Mutex (client.go:263), notifier.Mutex (client.go:250).
Mutexes == {"services", "workers", "listener", "notifier"}

\* The goroutines: the dispatcher loop, a caller of Do, a caller of WaitFor
\* and a timeout goroutine.
Tasks == {"dispatcher", "caller", "waiter", "timer"}

\* m.Lock(); defer m.Unlock(); a body that calls no function of the client.
Locked(m) == <<[op |-> "Lock", m |-> m], [op |-> "Unlock", m |-> m]>>

\* The Lock and Unlock calls of each function that takes a mutex.
pool_add == Locked("services")       \* pool.go:14-20
pool_get == Locked("services")       \* pool.go:22-27
pool_remove == Locked("services")    \* pool.go:29-35
workers_add == Locked("workers")     \* workers.go:15-25
workers_available == Locked("workers") \* workers.go:27-31
workers_next == Locked("workers")    \* workers.go:33-47
workers_remove == Locked("workers")  \* workers.go:49-60
notifier_activate == Locked("notifier")   \* part_000:15-19
notifier_deactivate == Locked("notifier") \* part_000:21-25
notifier_notify == Locked("notifier")     \* part_000:27-33, send inside
Client_listen == Locked("listener")  \* client.go:175-180
Client_receive == Locked("listener") \* client.go:182-195 (with its send)
Client_timeout == Locked("listener") \* client.go:218-226 (with its send)

\* A variant of Client.add that registers the peer while it holds the
\* registry's mutex.
Client_add_nested ==
  <<[op |-> "Lock", m |-> "services"]>> \o workers_add
    \o <<[op |-> "Unlock", m |-> "services"]>> \o notifier_notify

\* Client.add (client.go:52-59): the calls follow one another.
Client_add == pool_add \o workers_add \o notifier_notify

\* Client.remove with a last peer (client.go:197-207).
Client_remove == pool_get \o workers_remove \o pool_remove

\* Client.has for one service (client.go:164-173).
Client_has == pool_get \o workers_available

\* Client.Do (client.go:142-156).
Client_Do == pool_get \o workers_next \o Client_listen

\* Client.WaitFor that blocks and is woken once (client.go:229-245, 66-83).
Client_WaitFor ==
  Client_has \o Client_has \o notifier_activate \o Client_has
    \o notifier_deactivate

\* The operations each task runs.
Operations(t) ==
  CASE t = "dispatcher" -> {Client_add, Client_remove, Client_receive}
    [] t = "caller" -> {Client_Do}
    [] t = "waiter" -> {Client_WaitFor}
    [] t = "timer" -> {Client_timeout}

\* A task begins an operation.
Begin(t) ==
  /\ lk[t] = <<>>
  /\ \E operation \in Operations(t) : lk' = [lk EXCEPT ![t] = operation]
  /\ UNCHANGED mu
  /\ UNCHANGED <<doVars, regVars, waitVars, poolVars, closeVars, serveVars>>

\* sync.Mutex.Lock: the task goes on once the mutex is free.
Lock(t) ==
  /\ lk[t] # <<>> /\ Head(lk[t]).op = "Lock"
  /\ mu[Head(lk[t]).m] = ""
  /\ mu' = [mu EXCEPT ![Head(lk[t]).m] = t]
  /\ lk' = [lk EXCEPT ![t] = Tail(@)]
  /\ UNCHANGED <<doVars, regVars, waitVars, poolVars, closeVars, serveVars>>

\* sync.Mutex.Unlock, deferred to the return of the function.
Unlock(t) ==
  /\ lk[t] # <<>> /\ Head(lk[t]).op = "Unlock"
  /\ mu' = [mu EXCEPT ![Head(lk[t]).m] = ""]
  /\ lk' = [lk EXCEPT ![t] = Tail(@)]
  /\ UNCHANGED <<doVars, regVars, waitVars, poolVars, closeVars, serveVars>>

\* ------------------------------------------------------- specifications
\* newClient (client.go:247-267); no call has been made yet.
Init ==
  /\ handle = 0
  /\ handles = <<>>
  /\ chan = [c \in Calls |-> <<>>]
  /\ blocked = {}
  /\ pc = [c \in Calls |-> "idle"]
  /\ call = [c \in Calls |-> NoCall]
  /\ timer = [c \in Calls |-> "off"]
  /\ frames = 0
  /\ directory = <<>>
  /\ workers = <<>>
  /\ dpc = "idle"
  /\ dev = NoEvent
  /\ derr = <<>>
  /\ active = FALSE
  /\ wpc = [x \in ConcWaiters |-> "idle"]
  /\ wloc = [x \in ConcWaiters |-> NoWait]
  /\ w = newWorkers
  /\ trace = <<>>
  /\ ret = NoRet
  /\ changed = NoChange
  /\ closed = FALSE
  /\ gyre = [leave |-> 0, stop |-> 0]
  /\ close = [k \in Closes |-> NoClose]
  /\ served = 0
  /\ wr = NoWriter
  /\ sent = <<>>
  /\ mu = [m \in Mutexes |-> ""]
  /\ lk = [t \in Tasks |-> <<>>]

\* The fabric events the dispatcher loop (sleuth.go listen) may receive from
\* peers with the given names announcing the given services.
Enter(names, services) ==
  \E g \in Groups, name \in names, service \in services \cup {""} :
    \E node \in {NodeOf(name), ""} : Event_enter(g, name, node, service)

Exit(names) == \E name \in names : Event_exit(name)

Whisper == \E c \in Calls : Event_whisper(c)

\* The steps of Client.add and Client.remove after the first.
Registry ==
  \/ add_worker \/ notify_idle \/ remove_worker \/ remove_pool \/ log_error
  \/ log_debug

\* The steps of a Do call once it has been invoked.
DoStep(c) ==
  \/ Do_incr_read(c) \/ Do_incr_write(c) \/ Do_get(c)
  \/ Do_next(c) \/ Do_whisper(c) \/ listen(c) \/ Do_return(c)

WaitStep(x) ==
  \/ has_get(x) \/ has_available(x)
  \/ activate(x) \/ block_recv(x) \/ deactivate(x)

\* One task calls Do again and again.
Sequential(c) == \A k \in Calls : k < c => pc[k] \in {"done", "panic"}

\* One caller of Do, the timers and the dispatcher, any peers on the fabric.
Next ==
  \/ \E c \in Calls : Sequential(c) /\ Do_handle(c)
  \/ \E c \in Calls : Do_incr_read(c)
  \/ \E c \in Calls : Do_incr_write(c)
  \/ \E c \in Calls : Do_get(c)
  \/ \E c \in Calls : Do_next(c)
  \/ \E c \in Calls : Do_whisper(c)
  \/ \E c \in Calls : listen(c)
  \/ \E c \in Calls : Do_return(c)
  \/ \E c \in Calls : timeout(c)
  \/ Enter(Names, Services)
  \/ Exit(Names)
  \/ Whisper
  \/ add_worker
  \/ notify_idle
  \/ remove_worker
  \/ remove_pool
  \/ log_error
  \/ log_debug

Spec == Init /\ [][Next]_vars

\* Several tasks call Do at any time; one peer, n1, announces service a.
ConcNext ==
  \/ \E c \in Calls : Do_handle(c)
  \/ \E c \in Calls : Do_incr_read(c)
  \/ \E c \in Calls : Do_incr_write(c)
  \/ \E c \in Calls : Do_get(c)
  \/ \E c \in Calls : Do_next(c)
  \/ \E c \in Calls : Do_whisper(c)
  \/ \E c \in Calls : listen(c)
  \/ \E c \in Calls : Do_return(c)
  \/ \E c \in Calls : timeout(c)
  \/ Enter({"n1"}, {"a"})
  \/ Exit({"n1"})
  \/ Whisper
  \/ add_worker
  \/ notify_idle
  \/ remove_worker
  \/ remove_pool
  \/ log_error
  \/ log_debug

ConcSpec == Init /\ [][ConcNext]_vars

\* Go schedules every runnable goroutine and every timer fires; the fabric
\* owes the client no event.
FairConcSpec ==
  /\ ConcSpec
  /\ \A c \in Calls : WF_vars(DoStep(c)) /\ WF_vars(timeout(c))
  /\ WF_vars(Registry)

\* Callers of WaitFor and the dispatcher.
WaitNext ==
  \/ \E x \in Waiters : WaitFor(x)
  \/ \E x \in Waiters : has_get(x)
  \/ \E x \in Waiters : has_available(x)
  \/ \E x \in Waiters : activate(x)
  \/ \E x \in Waiters : block_recv(x)
  \/ \E x \in Waiters : deactivate(x)
  \/ Enter(Names, Services)
  \/ Exit(Names)
  \/ add_worker
  \/ notify_idle
  \/ notify_send
  \/ remove_worker
  \/ remove_pool
  \/ log_error
  \/ log_debug

WaitSpec == Init /\ [][WaitNext]_vars

FairWaitSpec ==
  /\ WaitSpec
  /\ \A x \in Waiters : WF_vars(WaitStep(x))
  /\ WF_vars(Registry \/ notify_send)

\* Callers of WaitFor that wait at the same time, and the dispatcher; one
\* peer, n1, announces service a.
TwoWaitNext ==
  \/ \E x \in ConcWaiters : WaitFor(x)
  \/ \E x \in ConcWaiters : has_get(x)
  \/ \E x \in ConcWaiters : has_available(x)
  \/ \E x \in ConcWaiters : activate(x)
  \/ \E x \in ConcWaiters : block_recv(x)
  \/ \E x \in ConcWaiters : deactivate(x)
  \/ Enter({"n1"}, {"a"})
  \/ Exit({"n1"})
  \/ add_worker
  \/ notify_idle
  \/ notify_send
  \/ remove_worker
  \/ remove_pool
  \/ log_error
  \/ log_debug

TwoWaitSpec == Init /\ [][TwoWaitNext]_vars

FairTwoWaitSpec ==
  /\ TwoWaitSpec
  /\ \A x \in ConcWaiters : WF_vars(WaitStep(x))
  /\ WF_vars(Registry \/ notify_send)

\* The operations of one workers object.
PoolNext ==
  \/ \E name \in PeerNames : w_add(name)
  \/ \E name \in PeerNames : w_remove(name)
  \/ w_next

PoolSpec == Init /\ [][PoolNext]_vars

\* The steps of a Close call.
CloseStep(k) == Close_check(k) \/ Close_leave(k) \/ Close_stop(k)

\* The positions of the dispatcher goroutine: all of them are inside the
\* for loop of listen (sleuth.go), which has no statement after it.
DispatcherLoop ==
  {"idle", "log", "debug", "serve", "add_worker", "notify", "send", "remove_worker",
   "remove_pool"}

\* Close is called, by one task after the other or by several at once, while
\* the dispatcher handles the events of peers that come and go.
CloseNext ==
  \/ \E k \in Closes : Close_check(k)
  \/ \E k \in Closes : Close_leave(k)
  \/ \E k \in Closes : Close_stop(k)
  \/ Enter(Names, Services)
  \/ Exit(Names)
  \/ add_worker
  \/ notify_idle
  \/ remove_worker
  \/ remove_pool
  \/ log_error
  \/ log_debug

CloseSpec == Init /\ [][CloseNext]_vars

\* Every Close call runs to its return and the dispatcher goroutine is
\* scheduled; the fabric owes the client no event.
FairCloseSpec ==
  /\ CloseSpec
  /\ \A k \in Closes : WF_vars(CloseStep(k))
  /\ WF_vars(Registry)

\* Close, Do and WaitFor are called on a client that has found no peer.
ClosedNext ==
  \/ \E k \in Closes : Close_check(k)
  \/ \E k \in Closes : Close_leave(k)
  \/ \E k \in Closes : Close_stop(k)
  \/ \E c \in Calls : Do_handle(c)
  \/ \E c \in Calls : Do_incr_read(c)
  \/ \E c \in Calls : Do_incr_write(c)
  \/ \E c \in Calls : Do_get(c)
  \/ \E x \in Waiters : WaitFor(x)
  \/ \E x \in Waiters : has_get(x)
  \/ \E x \in Waiters : activate(x)

ClosedSpec == Init /\ [][ClosedNext]_vars

\* One caller of Do, the timers, and the dispatcher receiving whisper
\* payloads of every kind while peer n1 comes and goes.
DispatchNext ==
  \/ \E c \in Calls : Sequential(c) /\ Do_handle(c)
  \/ \E c \in Calls : Do_incr_read(c)
  \/ \E c \in Calls : Do_incr_write(c)
  \/ \E c \in Calls : Do_get(c)
  \/ \E c \in Calls : Do_next(c)
  \/ \E c \in Calls : Do_whisper(c)
  \/ \E c \in Calls : listen(c)
  \/ \E c \in Calls : Do_return(c)
  \/ \E c \in Calls : timeout(c)
  \/ \E payload \in Payloads : Event_frame(payload)
  \/ serve_return
  \/ Enter({"n1"}, {"a"})
  \/ Exit({"n1"})
  \/ Whisper
  \/ add_worker
  \/ notify_idle
  \/ remove_worker
  \/ remove_pool
  \/ log_error
  \/ log_debug

DispatchSpec == Init /\ [][DispatchNext]_vars

\* The status codes a handler sets and the bodies it writes.
Codes == {404, 500}
Bodies == {<<"x">>, <<"x", "y">>}

\* The dispatcher receives the requests of peers and other payloads and runs
\* the handler, which calls WriteHeader and Write as it likes.
ServeNext ==
  \/ \E payload \in Requests \cup Payloads : Event_frame(payload)
  \/ \E code \in Codes : WriteHeader(code)
  \/ \E data \in Bodies : Write(data)
  \/ serve_return
  \/ log_error

ServeSpec == Init /\ [][ServeNext]_vars

\* The handler calls Do on the client that serves it (client.go:214 runs
\* ServeHTTP on the dispatcher's goroutine): a call begins while the handler
\* runs, one after another, and the handler returns when no call of its own
\* is in flight.
handler_Do(c) == dpc = "serve" /\ Sequential(c) /\ Do_handle(c)

handler_return ==
  /\ \A c \in Calls : pc[c] \in {"idle", "done"}
  /\ serve_return

HandlerNext ==
  \/ \E c \in Calls : handler_Do(c)
  \/ \E c \in Calls : Do_incr_read(c)
  \/ \E c \in Calls : Do_incr_write(c)
  \/ \E c \in Calls : Do_get(c)
  \/ \E c \in Calls : Do_next(c)
  \/ \E c \in Calls : Do_whisper(c)
  \/ \E c \in Calls : listen(c)
  \/ \E c \in Calls : Do_return(c)
  \/ \E c \in Calls : timeout(c)
  \/ \E payload \in Requests \cup Payloads : Event_frame(payload)
  \/ handler_return
  \/ Enter({"n1"}, {"a"})
  \/ Exit({"n1"})
  \/ Whisper
  \/ add_worker
  \/ notify_idle
  \/ remove_worker
  \/ remove_pool
  \/ log_error
  \/ log_debug

HandlerSpec == Init /\ [][HandlerNext]_vars

\* The tasks of a client take and release its mutexes.
LockNext ==
  \/ \E t \in Tasks : Begin(t)
  \/ \E t \in Tasks : Lock(t)
  \/ \E t \in Tasks : Unlock(t)

LockSpec == Init /\ [][LockNext]_vars

\* ================================================================ claims

\* The number of values ever sent into the channel of call c: those still
\* buffered and the one its Do has read.
Published(c) == Len(chan[c]) + (IF call[c].res.kind # "none" THEN 1 ELSE 0)

\* Every service of the set has a pool in the registry with a peer in it.
HasAll(required) ==
  \A s \in required : PoolHas(workers, s) /\ Len(workers[s].list) >= 1

\* The names of the peers in a list.
NamesOf(list) == {list[i].name : i \in 1..Len(list)}

\* The integer a handle string renders, read digit by digit.
HexValue(d) == CHOOSE v \in 0..15 : HexDigit(v) = d

RECURSIVE ParseHex(_)
ParseHex(s) ==
  IF Len(s) = 0 THEN 0
  ELSE 16 * ParseHex(SubSeq(s, 1, Len(s) - 1)) + HexValue(s[Len(s)])

\* C1: every Do call whose whisper succeeded eventually returns, with a
\* response or with errTimeout (read in the code's favour: unless the process
\* has crashed meanwhile), also when several Do calls run concurrently.
C1_DoReturns ==
  \A c \in Calls :
    (pc[c] = "listen") ~>
      \/ ~Running
      \/ /\ pc[c] = "done"
         /\ call[c].res.kind = "res" \/ call[c].err = <<errTimeout>>

\* C2: when the first response frame, the one for the request of an
\* outstanding Do call, is dispatched after the whisper and before the call's
\* timer has fired, it is published into that call's channel and not rejected.
C2_ResponseDelivered ==
  [][\A c \in Calls :
       (/\ Event_whisper(c)
        /\ frames = 0
        /\ pc[c] \in {"listen", "wait"}
        /\ timer[c] # "fired")
       => /\ chan'[c] = <<Response(c)>>
          /\ derr' = <<>>]_vars

\* C3: the handles of Do calls are pairwise different and increase strictly in
\* the order in which the calls were invoked.
C3_HandlesIncrease ==
  \A c1, c2 \in Calls :
    (c1 < c2 /\ pc[c2] # "idle") =>
      /\ call[c1].handle # call[c2].handle
      /\ ParseHex(call[c1].handle) < ParseHex(call[c2].handle)

\* C4: at most one value is ever published into the channel of a call, a
\* channel still registered in the table has had none, and no publisher is
\* ever stuck on its send.
C4_OnePublish ==
  /\ blocked = {}
  /\ \A c \in Calls : Published(c) <= 1
  /\ \A h \in DOMAIN handles : Published(handles[h]) = 0

\* C4 witness: a response was published to a call, a second frame for it was
\* dispatched and its timer fired, before the call read its channel.
C4_Witness ==
  \E c \in Calls :
    /\ chan[c] = <<Response(c)>>
    /\ timer[c] = "fired"
    /\ frames = 2
    /\ handles = <<>>

\* C5: a call only ever gets the response to its own request or the nil
\* sentinel of its own timer.
C5_OwnValue ==
  \A c \in Calls :
    /\ \A i \in 1..Len(chan[c]) : chan[c][i].from = c
    /\ call[c].res.kind # "none" => call[c].res.from = c

\* C6: a WaitFor whose required services all end up available for good, with
\* the dispatcher idle, eventually returns.
C6_WaitReturns ==
  \A x \in Waiters :
    <>[](wpc[x] # "idle" /\ dpc = "idle" /\ HasAll(wloc[x].required))
      => <>(wpc[x] = "done")

\* C7: WaitFor returns only after a has() that counted every required
\* service; a service is counted only while the registry holds a pool for it
\* with at least one peer; a blocked WaitFor is woken by an enter event only.
C7_ReturnsOnlyWhenAvailable ==
  /\ [](\A x \in Waiters :
          wpc[x] \in {"done", "deactivate"} =>
            wloc[x].available = Cardinality(wloc[x].required))
  /\ [][\A x \in Waiters :
          /\ wloc'[x].available > wloc[x].available =>
               /\ wloc'[x].available = wloc[x].available + 1
               /\ wloc[x].peers \in wloc[x].todo
               /\ HasAll({wloc[x].peers})
          /\ (wpc[x] = "recv" /\ wpc'[x] # "recv") => dev.type = "enter"]_vars

\* C7 witness: a WaitFor for both services blocked, was woken and returned.
C7_Witness ==
  \E x \in Waiters :
    /\ wpc[x] = "done"
    /\ wloc[x].site = "loop"
    /\ wloc[x].required = Services

\* C8: with N >= 1 peers and no add or remove in between, consecutive next()
\* calls walk the list cyclically from wherever the cursor stood, so any N
\* consecutive calls return every peer once, and for N >= 2 no two
\* consecutive calls return the same peer.
C8_RoundRobin ==
  LET N == Len(w.list)
      At(i) == IndexOf(w.list, trace[i].name)
  IN  N >= 1 =>
        /\ \A i \in 1..Len(trace) : At(i) # 0 /\ trace[i] = w.list[At(i)]
        /\ \A i \in 1..(Len(trace) - 1) : At(i + 1) = (At(i) % N) + 1
        /\ \A i \in 1..Len(trace) :
             i + N - 1 <= Len(trace) =>
               {At(j) : j \in i..(i + N - 1)} = 1..N
        /\ N >= 2 => \A i \in 1..(Len(trace) - 1) : trace[i] # trace[i + 1]

\* C8 witness: more than a full cycle over a list of two peers, begun at the
\* second one.
C8_Witness ==
  /\ Len(w.list) = 2
  /\ Len(trace) >= 3
  /\ trace[1] = w.list[2]

\* C9: a Do that looks up a service without a registered peer, while the
\* dispatcher is between events, returns [errUnknownService]; and whatever the
\* dispatcher is doing, the peer a Do selects is one that is in the service's
\* pool at that moment, never the absent peer.
C9_UnknownServiceOrPeer ==
  [][\A c \in Calls :
       /\ (/\ pc[c] = "get" /\ pc'[c] # "get"
           /\ dpc = "idle" /\ ~HasAll({call'[c].to})) =>
            /\ pc'[c] = "done"
            /\ call'[c].err = <<errUnknownService>>
       /\ (pc[c] = "next" /\ pc'[c] # "next") =>
            /\ call'[c].p # NoPeer
            /\ PoolHas(workers, call[c].to)
            /\ call'[c].p.name \in NamesOf(workers[call[c].to].list)]_vars

\* C10: once the dispatcher has processed the exit of a name, no pool holds a
\* peer with that name.
C10_ExitRemovesPeer ==
  [][(dev.type = "exit" /\ dpc # "idle" /\ dpc' = "idle") =>
       \A s \in DOMAIN workers' :
         dev.name \notin NamesOf(workers'[s].list)]_vars

\* The handle strings the bounded number of Do calls can be given.
HandleStrings == {FormatInt(n) : n \in 0..NumCalls}

\* C11: every handle in the pending-call table is eventually removed from it
\* (while the process lives), and the table is empty whenever no timer is
\* armed, that is, when every call that registered a slot has seen its timer
\* fire.
C11_HandleRemoved ==
  /\ []((\A c \in Calls : timer[c] # "armed") => handles = <<>>)
  /\ \A h \in HandleStrings :
       (h \in DOMAIN handles) ~> (h \notin DOMAIN handles \/ ~Running)

\* C11 witness: a call registered its slot, no response came, its timer
\* removed the slot, the call returned and the table is empty.
C11_Witness ==
  \E c \in Calls :
    /\ pc[c] = "done"
    /\ call[c].res = NilRes(c)
    /\ timer[c] = "fired"
    /\ frames = 0
    /\ handles = <<>>

\* C12: once a Close call has returned, the dispatcher goroutine eventually
\* leaves its event loop.
C12_DispatcherStops ==
  \A k \in Closes :
    (close[k].pc = "done") ~> (dpc \notin DispatcherLoop)

\* C13: a Close that has returned has set the flag, and a Close called after
\* another Close returned (with nil or with [errLeave]) returns exactly
\* [errClosed] and calls neither Leave nor Stop.
C13_SecondCloseFails ==
  /\ [](\A k \in Closes : close[k].pc = "done" => closed)
  /\ [][\A k \in Closes :
          (/\ close[k].pc = "idle" /\ close'[k].pc # "idle"
           /\ \E j \in Closes : close[j].pc = "done")
          => /\ close'[k] = [pc |-> "done", err |-> <<errClosed>>]
             /\ gyre' = gyre]_vars

\* C13 witness: the first Close failed to leave, the second was rejected,
\* and Leave was called once and Stop never.
C13_Witness ==
  /\ close[1] = [pc |-> "done", err |-> <<errLeave>>]
  /\ close[2] = [pc |-> "done", err |-> <<errClosed>>]
  /\ gyre = [leave |-> 1, stop |-> 0]

\* C14: a Do called with the flag set returns [errClosed, errDo] and a WaitFor
\* [errClosed, errWait], in one step that assigns no handle and touches
\* neither the counter, the pending-call table, the timers, the registry, the
\* notifier nor the fabric node.
C14_ClosedRejects ==
  [][/\ \A c \in Calls :
          (pc[c] = "idle" /\ pc'[c] # "idle" /\ closed)
          => /\ pc'[c] = "done"
             /\ call'[c].err = <<errClosed, errDo>>
             /\ call'[c].handle = <<>>
             /\ UNCHANGED <<handle, handles, chan, timer, workers, directory,
                            active, gyre>>
     /\ \A x \in Waiters :
          (wpc[x] = "idle" /\ wpc'[x] # "idle" /\ closed)
          => /\ wpc'[x] = "done"
             /\ wloc'[x].err = <<errClosed, errWait>>
             /\ UNCHANGED <<handle, handles, workers, directory, active,
                            gyre>>]_vars

\* C14 witness: a Do and a WaitFor were both rejected on a closed client
\* after an earlier Do had been given a handle.
C14_Witness ==
  /\ \E c \in Calls : call[c].err = <<errClosed, errDo>>
  /\ \E x \in Waiters : wloc[x].err = <<errClosed, errWait>>
  /\ handle = 1

\* C15: a Do that read the nil sentinel from its channel returns exactly
\* [errTimeout], and a Do that returned errTimeout read the sentinel of its
\* own timer, which has fired, and no response.
C15_TimeoutOnlyOwn ==
  \A c \in Calls :
    /\ (pc[c] = "done" /\ call[c].res.kind = "nil")
         => call[c].err = <<errTimeout>>
    /\ errTimeout \in {call[c].err[i] : i \in 1..Len(call[c].err)}
         => /\ call[c].err = <<errTimeout>>
            /\ call[c].res = NilRes(c)
            /\ timer[c] = "fired"

\* C16: the dispatch of a well-formed response frame whose handle is not in
\* the pending-call table (never issued, already delivered or timed out)
\* ends with receive's [errRECV], escalated by dispatch with errDispatch,
\* publishes into no channel and leaves the table as it was.
C16_UnknownHandleRejected ==
  [][/\ \A c \in Calls :
          (Event_whisper(c) /\ call[c].handle \notin DOMAIN handles)
          => /\ derr' = <<errRECV, errDispatch>>
             /\ UNCHANGED <<chan, handles, blocked>>
     /\ \A h \in HandleStrings \cup {<<"f">>} :
          (/\ Event_frame(resMarshal(group,
                                     [NoOutput EXCEPT !.Code = 200,
                                                      !.Handle = h]))
           /\ h \notin DOMAIN handles)
          => /\ derr' = <<errRECV, errDispatch>>
             /\ UNCHANGED <<chan, handles, blocked>>]_vars

\* C16 witness: a response that came after its call had timed out was
\* rejected while another call's slot was pending.
C16_Witness ==
  /\ derr = <<errRECV, errDispatch>>
  /\ frames = 1
  /\ \E c \in Calls : pc[c] = "done" /\ call[c].err = <<errTimeout>>
  /\ handles # <<>>

\* The sequence p begins with the sequence g.
StartsWith(p, g) == Len(p) >= Len(g) /\ \A i \in 1..Len(g) : p[i] = g[i]

\* C17: the dispatch of a payload shorter than the group and four bytes, or
\* not beginning with the group, ends with [errDispatchHeader], and of one
\* with the group and a kind other than RECV and REPL with
\* [errDispatchAction] (each escalated by dispatch with errDispatch); the
\* registry, the directory, the pending-call table, the channels and the
\* notifier stay as they were and the handler is not invoked.
C17_BadFrameRejected ==
  [][\A payload \in Payloads :
       LET header == Len(groupBytes) + 4
           bad == Len(payload) < header \/ ~StartsWith(payload, groupBytes)
           known == \/ StartsWith(payload, groupBytes \o recv)
                    \/ StartsWith(payload, groupBytes \o repl)
       IN  (Event_frame(payload) /\ (bad \/ ~known))
           => /\ derr' = IF bad THEN <<errDispatchHeader, errDispatch>>
                                 ELSE <<errDispatchAction, errDispatch>>
              /\ UNCHANGED <<workers, directory, handles, chan, blocked,
                             active, served>>]_vars

\* C17 witness: a payload of an unknown kind was rejected while a call was
\* pending and a peer was registered.
C17_Witness ==
  /\ derr = <<errDispatchAction, errDispatch>>
  /\ handles # <<>>
  /\ workers # <<>>

\* C18: a Do rejected with [errScheme] or [errUnknownService] leaves the
\* client as it found it: none of its steps changes the pending-call table
\* or a pool, and once it has returned (no later Do begun) the handle counter
\* is what it was when the call read it.
C18_RejectedDoNoChange ==
  /\ [](\A c \in Calls :
          (/\ pc[c] = "done"
           /\ call[c].err \in {<<errScheme>>, <<errUnknownService>>}
           /\ \A k \in Calls : k > c => pc[k] = "idle")
          => handle = ParseHex(call[c].handle))
  /\ [][\A c \in Calls :
          (/\ pc[c] \in {"idle", "incr_read", "incr_write", "get"}
           /\ pc'[c] # pc[c]
           /\ pc'[c] \in {"incr_read", "incr_write", "get", "done"})
          => UNCHANGED <<handles, chan, workers>>]_vars

\* C19: every service in the registry has a pool with at least one peer, in
\* every state between two critical sections.
C19_NoEmptyPool ==
  \A s \in DOMAIN workers : Len(workers[s].list) >= 1

\* C20: whenever the dispatcher is between events, the directory maps a name
\* to a service exactly if the pool of that service holds a peer of that
\* name.
C20_DirectoryAgrees ==
  dpc = "idle" =>
    \A name \in Names, s \in Services :
      (name \in DOMAIN directory /\ directory[name] = s)
        <=> (s \in DOMAIN workers /\ name \in NamesOf(workers[s].list))

\* C21: no two peers in the list of a pool share a name, whatever adds,
\* removes and nexts came before; an add of a peer whose name is in the list
\* (whatever its service) leaves the list and the cursor as they were and
\* returns the number of peers in the list.
C21_NoDuplicateNames ==
  /\ [](\A i, j \in 1..Len(w.list) :
          w.list[i].name = w.list[j].name => i = j)
  /\ [][\A name \in PeerNames :
          (w_add(name) /\ name \in NamesOf(w.list))
          => /\ w' = w
             /\ ret' = [op |-> "add", n |-> Len(w.list), p |-> NoPeer]]_vars

\* C21 witness: a name was added again to a list of two peers with the
\* cursor advanced (the calls of next() since the last change of the list are
\* still on record, so the add changed nothing).
C21_Witness ==
  /\ ret.op = "add"
  /\ ret.n = 2
  /\ Len(w.list) = 2
  /\ w.current = 2
  /\ Len(trace) = 2

\* The enter events the fabric may hand to the dispatcher.
EnterEvents ==
  {ev \in [g : Groups, name : Names, node : {NodeOf(n) : n \in Names} \cup {""},
           service : Services \cup {""}] :
     ev.node \in {NodeOf(ev.name), ""}}

\* C22: an enter event whose group header differs from the group of the
\* client (a client-only peer sends no headers, so its group reads "") makes
\* add return nil: the registry, the directory and the notifier stay as they
\* were, no error reaches the loop and nothing is offered on the stream.
C22_ForeignGroupIgnored ==
  /\ [][\A ev \in EnterEvents :
          (Event_enter(ev.g, ev.name, ev.node, ev.service) /\ ev.g # group)
          => /\ UNCHANGED <<workers, directory, active, derr, dev>>
             /\ dpc' = "debug"]_vars
  /\ [][dpc = "debug"
        => /\ UNCHANGED <<workers, directory, derr, dev>>
           /\ dpc' \in {"debug", "idle"}]_vars
  /\ [][log_debug => UNCHANGED active]_vars

\* C22 witness: add is returning from an enter event of another group while
\* a peer is registered and a waiter has armed the notifier.
C22_Witness ==
  /\ dpc = "debug"
  /\ active
  /\ DOMAIN workers # {}
  /\ DOMAIN directory # {}

\* C23: an enter event of the client's own group with an empty node or an
\* empty service makes add return the chain [errAdd] (the loop appends
\* errDispatch to it before logging): the registry, the directory and the
\* notifier stay as they were.
C23_AddRejectsEmpty ==
  [][\A ev \in EnterEvents :
       (/\ Event_enter(ev.g, ev.name, ev.node, ev.service)
        /\ ev.g = group
        /\ (ev.node = "" \/ ev.service = ""))
       => /\ derr' = <<errAdd, errDispatch>>
          /\ dpc' = "log"
          /\ UNCHANGED <<workers, directory, active, dev>>]_vars

\* C23 witness: add has returned [errAdd] while a peer is registered and a
\* waiter has armed the notifier.
C23_Witness ==
  /\ derr = <<errAdd, errDispatch>>
  /\ dpc = "log"
  /\ active
  /\ DOMAIN workers # {}
  /\ DOMAIN directory # {}

\* C28: a request that Do has handed to whisper has its slot in the
\* pending-call table and its timer started: both were set up before the
\* whisper.
C28_ListenBeforeWhisper ==
  \A c \in Calls : Whispered(c) => timer[c] # "off"

\* C29: notify never holds the notifier mutex on a send that nobody will
\* receive: in no state is the dispatcher blocked on the stream while every
\* waiter that armed the notifier has left its receive loop and needs the
\* mutex to deactivate.
C29_NotifyNeverStuck ==
  ~(/\ dpc = "send"
    /\ \E x \in Waiters : wpc[x] = "deactivate"
    /\ \A x \in Waiters : wpc[x] # "recv")

\* C30: of two WaitFor calls parked on the stream of the armed notifier at
\* the same time, with the dispatcher idle and a required service still
\* missing, each returns once the services it requires are available for
\* good: neither the other's receipt of a signal nor the other's deactivate
\* keeps it parked.
C30_BothWaitersReturn ==
  \A x, y \in ConcWaiters :
    x # y =>
      []((/\ wpc[x] = "recv" /\ wpc[y] = "recv" /\ active
          /\ dpc = "idle" /\ ~HasAll(wloc[x].required))
           => (<>[](HasAll(wloc[x].required) /\ dpc = "idle")
                 => <>(wpc[x] = "done")))

\* C24: once a response frame for a call has been dispatched at the
\* originator, every later frame for the same call (the handler wrote more
\* than once; all its frames carry the handle of the request) is rejected
\* with [errRECV], escalated by dispatch, and is delivered to no call.
C24_LaterFramesRejected ==
  [][\A c \in Calls :
       (/\ Event_whisper(c)
        /\ frames >= 1
        /\ \A k \in Calls \ {c} : ~Whispered(k))
       => /\ derr' = <<errRECV, errDispatch>>
          /\ UNCHANGED <<chan, handles>>]_vars

\* The part of a whisper payload after the group and the four bytes of its
\* kind.
Rest(payload) ==
  SubSeq(payload, Len(groupBytes) + 5, Len(payload))

\* C25: the writer made for a request takes its peer and its handle from the
\* destination and the handle the requester marshalled into the request (its
\* own fabric address and the handle it registered), keeps them while the
\* handler runs, and every frame it whispers is a response frame addressed
\* to that peer whose unmarshalled handle is that handle.
C25_ResponseRouted ==
  /\ [][\A name \in Names, h \in {<<"0">>, <<"1", "f">>} :
          Event_frame(reqMarshal(group, Address(name), h, <<"G", "E", "T">>))
          => /\ dpc' = "serve"
             /\ wr'.peer = Address(name)
             /\ wr'.output.Handle = h]_vars
  /\ [][(dpc = "serve" /\ dpc' = "serve")
        => /\ wr'.peer = wr.peer
           /\ wr'.output.Handle = wr.output.Handle]_vars
  /\ [](\A i \in 1..Len(sent) :
          /\ sent[i].to = wr.peer
          /\ StartsWith(sent[i].payload, groupBytes \o recv)
          /\ resUnmarshal(Rest(sent[i].payload)).err = <<>>
          /\ resUnmarshal(Rest(sent[i].payload)).handle = wr.output.Handle)

\* C25 witness: the handler of a request of peer n2 with handle 1f has
\* whispered two frames.
C25_Witness ==
  /\ dpc = "serve"
  /\ Len(sent) = 2
  /\ wr.peer = Address("n2")
  /\ wr.output.Handle = <<"1", "f">>

\* The bytes are no gzip stream.
NotGzip(body) == body = <<>> \/ body[1] # "gz"

\* C26: an error chain lists the deepest failing site first.  A response
\* frame whose body is no gzip stream yields [errUnzip, errResUnmarshal,
\* errRECV] from receive and is delivered to nobody; a request frame whose
\* body is no gzip stream yields [errUnzip, errReqUnmarshal, errREPL] from
\* reply and the handler is not invoked; the loop appends errDispatch last.
C26_ChainsDeepestFirst ==
  [][\A payload \in Payloads :
       /\ (/\ Event_frame(payload)
           /\ StartsWith(payload, groupBytes \o recv)
           /\ NotGzip(Rest(payload)))
          => /\ derr' = <<errUnzip, errResUnmarshal, errRECV, errDispatch>>
             /\ dpc' = "log"
             /\ UNCHANGED <<handles, chan, blocked, served, wr, sent>>
       /\ (/\ Event_frame(payload)
           /\ StartsWith(payload, groupBytes \o repl)
           /\ NotGzip(Rest(payload)))
          => /\ derr' = <<errUnzip, errReqUnmarshal, errREPL, errDispatch>>
             /\ dpc' = "log"
             /\ UNCHANGED <<handles, chan, blocked, served, wr, sent>>]_vars

\* C26 witness: a request frame with a body that is no gzip stream was
\* rejected, the handler never having run, while a call was pending.
C26_Witness ==
  /\ derr = <<errUnzip, errReqUnmarshal, errREPL, errDispatch>>
  /\ served = 0
  /\ handles # <<>>

\* C27: WriteHeader records the code and sends nothing.  Write sets the
\* status to 200 if none was set and leaves a set one alone; it whispers one
\* frame, which holds that status and the bytes written, and returns the
\* number of bytes, or, when the whisper fails, sends nothing and returns
\* zero with [errResWhisper].
C27_WriteSendsOneFrame ==
  /\ [][\A code \in Codes :
          WriteHeader(code) => (wr'.output.Code = code /\ sent' = sent)]_vars
  /\ [][\A data \in Bodies :
          Write(data)
          => /\ wr'.output.Code
                  = (IF wr.output.Code = 0 THEN 200 ELSE wr.output.Code)
             /\ \/ /\ Len(sent') = Len(sent) + 1
                   /\ SubSeq(sent', 1, Len(sent)) = sent
                   /\ LET r == resUnmarshal(Rest(sent'[Len(sent')].payload))
                      IN  /\ r.err = <<>>
                          /\ r.res.Code = wr'.output.Code
                          /\ r.res.Body = data
                   /\ wr'.n = Len(data)
                   /\ wr'.err = <<>>
                \/ /\ sent' = sent
                   /\ wr'.n = 0
                   /\ wr'.err = <<errResWhisper>>]_vars

\* C27 witness: a first Write without a status went out with 200 and the
\* second Write failed in whisper.
C27_Witness ==
  /\ dpc = "serve"
  /\ Len(sent) = 1
  /\ wr.writes = 2
  /\ wr.output.Code = 200
  /\ wr.n = 0
  /\ wr.err = <<errResWhisper>>

\* C33: whatever adds, removes and nexts came before, the cursor is never
\* negative, a next on a non-empty list returns a peer of the list and leaves
\* 1 <= cursor <= length, and a next that finds cursor >= length > 0 returns
\* the first peer of the list and sets the cursor to 1.
C33_CursorInRange ==
  /\ [](w.current >= 0)
  /\ [][(w_next /\ Len(w.list) > 0)
        => /\ w'.list = w.list
           /\ w'.current \in 1..Len(w.list)
           /\ \E i \in 1..Len(w.list) : ret'.p = w.list[i]
           /\ w.current < Len(w.list)
                => (ret'.p = w.list[w.current + 1]
                    /\ w'.current = w.current + 1)
           /\ w.current >= Len(w.list)
                => (ret'.p = w.list[1] /\ w'.current = 1)]_vars

\* C33 witness: after removals left one peer and the cursor beyond the list,
\* two calls of next have returned that peer and the cursor is 1.
C33_Witness ==
  /\ changed.op = "remove"
  /\ changed.current = 3
  /\ Len(w.list) = 1
  /\ trace = <<w.list[1], w.list[1]>>
  /\ w.current = 1
  /\ ret.op = "next"

\* C38: remove of a name that is not in the list returns the length of the
\* list and no peer, next on an empty list returns no peer, and both leave
\* the list and the cursor as they were.
C38_AbsentLeavesPool ==
  /\ [][\A name \in PeerNames :
          (w_remove(name) /\ name \notin NamesOf(w.list))
          => /\ w' = w
             /\ ret' = [op |-> "remove", n |-> Len(w.list), p |-> NoPeer]]_vars
  /\ [][(w_next /\ w.list = <<>>)
        => (w' = w /\ ret'.p = NoPeer)]_vars

\* C38 witness: on a list emptied with the cursor at 2, next returned no peer
\* and then the remove of a name returned 0 and no peer; the cursor is 2.
C38_Witness ==
  /\ w.list = <<>>
  /\ w.current = 2
  /\ trace = <<NoPeer>>
  /\ ret = [op |-> "remove", n |-> 0, p |-> NoPeer]

\* C39: after the removal of the first peer of the list, the two calls of
\* next that follow both return the first peer of the list that remains.
C39_HeadRemovalRepeats ==
  (/\ changed.op = "remove" /\ changed.at = 0
   /\ Len(w.list) >= 1 /\ Len(trace) >= 2)
  => (trace[1] = w.list[1] /\ trace[2] = w.list[1])

\* The first peer of a list of two was removed while the cursor was 0.
HeadOfPairRemoved ==
  /\ changed.op = "remove" /\ changed.at = 0
  /\ changed.current = 0 /\ Len(w.list) = 1

\* C39 as amended: after the removal of the first peer of a list of two whose
\* cursor is 0 (next was never called on it), the two calls of next that
\* follow both return the one peer that remains, the first through the
\* advance of the cursor from 0 and the second through the wrap.
C39_HeadRemovalOfPair ==
  /\ []((HeadOfPairRemoved /\ Len(trace) >= 2)
         => (trace[1] = w.list[1] /\ trace[2] = w.list[1]))
  /\ [][(HeadOfPairRemoved /\ w_next /\ Len(trace) = 0)
        => (w.current < Len(w.list) /\ w'.current = 1)]_vars
  /\ [][(HeadOfPairRemoved /\ w_next /\ Len(trace) = 1)
        => (w.current >= Len(w.list) /\ w'.current = 1)]_vars

\* C39 witness: the first of two peers was removed with the cursor at 0 and
\* next has returned the remaining peer twice.
C39_Witness ==
  /\ changed = [op |-> "remove", at |-> 0, current |-> 0]
  /\ Len(w.list) = 1
  /\ trace = <<w.list[1], w.list[1]>>
  /\ w.current = 1

\* C32: a Do whose whisper fails returns [errReqWhisper] at once, its timer
\* never started, and afterwards the pending-call table holds no slot of that
\* call (none under its handle, unless another call was given the same
\* handle and registered its own slot), its channel is empty and no response
\* or sentinel was read.
C32_WhisperFailureLeavesNothing ==
  /\ [][\A c \in Calls :
          (pc[c] = "whisper" /\ pc'[c] = "done")
          => /\ call'[c].err = <<errReqWhisper>>
             /\ timer[c] = "off"
             /\ UNCHANGED <<handles, timer, chan>>]_vars
  /\ [](\A c \in Calls :
          (pc[c] = "done" /\ call[c].err = <<errReqWhisper>>)
          => /\ timer[c] = "off"
             /\ \A h \in DOMAIN handles : handles[h] # c
             /\ (\A k \in Calls \ {c} : call[k].handle # call[c].handle)
                  => call[c].handle \notin DOMAIN handles
             /\ chan[c] = <<>>
             /\ call[c].res = NoRes)

\* C32 witness: the whisper of the second call failed while the first call
\* was waiting on its registered slot.
C32_Witness ==
  /\ pc[1] = "wait" /\ timer[1] = "armed" /\ handles # <<>>
  /\ pc[2] = "done" /\ call[2].err = <<errReqWhisper>>
  /\ call[2].handle # call[1].handle

\* C34: a notify that finds the notifier unarmed returns at once and leaves
\* nothing behind: the dispatcher goes back to its loop, a value is offered
\* on the stream only by a notify that found the notifier armed, and a waiter
\* leaves its receive only by taking the value of a notify that is blocked on
\* the stream at that moment.
C34_UnarmedNotifyDropped ==
  /\ [][(dpc = "notify" /\ ~active /\ dpc' # "notify")
        => (dpc' = "idle" /\ UNCHANGED <<active, wpc, wloc>>)]_vars
  /\ [][(dpc' = "send" /\ dpc # "send") => (dpc = "notify" /\ active)]_vars
  /\ [][\A x \in Waiters :
          (wpc[x] = "recv" /\ wpc'[x] # "recv")
          => (dpc = "send" /\ dpc' = "idle")]_vars

\* C34 witness: the peer a waiter needs was added, with its notify, before
\* the waiter armed the notifier; the waiter is parked on the stream with the
\* dispatcher idle and no signal for it.
C34_Witness ==
  /\ dpc = "idle"
  /\ active
  /\ \E x \in Waiters :
       /\ wpc[x] = "recv"
       /\ wloc[x].site = "block"
       /\ wloc[x].required # {}
       /\ HasAll(wloc[x].required)

\* The error chains Do itself returns.
DoErrors ==
  {<<>>, <<errScheme>>, <<errUnknownService>>, <<errReqWhisper>>,
   <<errTimeout>>, <<errClosed, errDo>>}

\* C35: an event whose handling fails leaves its error chain, ending in
\* errDispatch, with the loop only: the step that fails changes no Do call,
\* no WaitFor call, no channel, no timer and no registry entry, the loop logs
\* the error and
\* is free for the next event, and no Do or WaitFor ever returns a chain
\* other than those it makes itself.
C35_FailuresLoggedAndDropped ==
  /\ [][(derr' # <<>> /\ derr = <<>>)
        => /\ dpc' = "log"
           /\ derr'[Len(derr')] = errDispatch
           /\ UNCHANGED <<pc, call, chan, timer, handles, workers,
                          directory, served, wpc, wloc, active>>]_vars
  /\ [][dpc = "log"
        => (dpc' \in {"log", "idle"} /\ (dpc' = "idle" => derr' = <<>>))]_vars
  /\ []((Running /\ dpc = "log") => ENABLED log_error)
  /\ [](\A c \in Calls : call[c].err \in DoErrors)
  /\ [](\A x \in ConcWaiters : wloc[x].err \in {<<>>, <<errClosed, errWait>>})

\* C35 witness: a second response frame for a call was rejected and is being
\* logged while the response delivered before it waits in the call's channel.
C35_Witness ==
  /\ dpc = "log"
  /\ derr = <<errRECV, errDispatch>>
  /\ frames = 2
  /\ \E c \in Calls : pc[c] = "wait" /\ chan[c] = <<Response(c)>>

\* The map m with key k bound to v, and without key k.
With(m, k, v) == [x \in DOMAIN m \cup {k} |-> IF x = k THEN v ELSE m[x]]
Without(m, k) == [x \in DOMAIN m \ {k} |-> m[x]]

\* C36: the removal of a registered name takes the peer of that name out of
\* the pool of the service the reverse index gives for it, deletes that pool
\* from the registry if it is left empty, and deletes the reverse entry;
\* nothing else in the registry changes.  The addition of a name with a
\* service the registry does not hold creates the pool of that service with
\* that one peer and changes no other pool, so the removal that follows it
\* deletes exactly that pool and the registry is what it was.  The removal of
\* a name without a reverse entry changes nothing.
C36_RemoveUndoesAdd ==
  /\ [][\A ev \in EnterEvents :
          (/\ Event_enter(ev.g, ev.name, ev.node, ev.service)
           /\ ev.g = group /\ ev.node # "" /\ ev.service # ""
           /\ ev.service \notin DOMAIN workers)
          => /\ workers' = With(workers, ev.service,
                                 [list |-> <<>>, current |-> 0])
             /\ directory' = With(directory, ev.name, ev.service)
             /\ dpc' = "add_worker"]_vars
  /\ [][(dpc = "add_worker" /\ dpc' # "add_worker"
         /\ workers[dev.service].list = <<>>)
        => /\ workers' = With(workers, dev.service,
                               [list |-> <<Peer(dev.name, dev.node,
                                                dev.service)>>,
                                current |-> 0])
           /\ UNCHANGED directory]_vars
  /\ [][\A name \in Names :
          Event_exit(name)
          => /\ UNCHANGED workers
             /\ name \notin DOMAIN directory
                  => UNCHANGED <<directory, dpc, dev, active, derr>>
             /\ (name \in DOMAIN directory
                 /\ directory[name] \in DOMAIN workers)
                  => /\ dpc' = "remove_worker"
                     /\ dev'.name = name
                     /\ dev'.service = directory[name]
                     /\ UNCHANGED directory]_vars
  /\ [][(dpc = "remove_worker" /\ dpc' # "remove_worker")
        => LET list == workers[dev.service].list
               rest == workers'[dev.service].list
           IN  /\ DOMAIN workers' = DOMAIN workers
               /\ \A t \in DOMAIN workers \ {dev.service} :
                    workers'[t] = workers[t]
               /\ workers'[dev.service].current
                    = workers[dev.service].current
               /\ dev.name \notin NamesOf(rest)
               /\ \A i \in 1..Len(list) :
                    list[i].name # dev.name
                    => \E j \in 1..Len(rest) : rest[j] = list[i]
               /\ Len(rest) >= Len(list) - 1
               /\ IF rest = <<>>
                  THEN dpc' = "remove_pool" /\ UNCHANGED directory
                  ELSE /\ dpc' = "idle"
                       /\ directory' = Without(directory, dev.name)]_vars
  /\ [][(dpc = "remove_pool" /\ dpc' # "remove_pool")
        => /\ dpc' = "idle"
           /\ workers' = Without(workers, dev.service)
           /\ directory' = Without(directory, dev.name)]_vars

\* C36 witness: the removal of the only peer of a service has emptied its
\* pool and is about to delete it, while another service keeps its pool.
C36_Witness ==
  /\ dpc = "remove_pool"
  /\ dev.type = "exit"
  /\ workers[dev.service].list = <<>>
  /\ workers[dev.service].current = 0
  /\ Cardinality(DOMAIN workers) = 2
  /\ directory[dev.name] = dev.service

\* C37: no task holds two of the client's mutexes (the registry's, a worker
\* pool's, the pending-call table's, the notifier's) at the same time, and no
\* mutex is released by a task that does not hold it.
C37_OneMutexAtATime ==
  /\ [](\A t \in Tasks : Cardinality({m \in Mutexes : mu[m] = t}) <= 1)
  /\ [][\A t \in Tasks : Unlock(t) => mu[Head(lk[t]).m] = t]_vars

\* C37 witness: three tasks hold one mutex each: the dispatcher the
\* notifier's inside add, the caller of Do the pending-call table's, the
\* caller of WaitFor a worker pool's.
C37_Witness ==
  /\ mu["notifier"] = "dispatcher"
  /\ mu["listener"] = "caller"
  /\ mu["workers"] = "waiter"
  /\ mu["services"] = ""

\* C31: while the handler runs, the dispatcher takes no event from the
\* fabric: the registry (but for the cursor a Do advances), the count of
\* response frames and the dispatcher's error stay as they are, and nothing
\* but the nil of a timer is published to a caller.  So a Do the handler issues on its own client never gets a
\* response: it is in flight only while the handler runs, and once it has
\* whispered it ends with [errTimeout], after its timer has fired.
C31_HandlerDoTimesOut ==
  /\ [][dpc = "serve"
        => /\ UNCHANGED <<directory, frames, derr, dev>>
           /\ (\E c \in Calls : Do_next(c)) \/ UNCHANGED workers
           /\ dpc' \in {"serve", "idle"}
           /\ \A c \in Calls :
                chan'[c] # chan[c] /\ chan'[c] # <<>>
                  => chan'[c][Len(chan'[c])].kind = "nil"]_vars
  /\ [](\A c \in Calls : pc[c] \notin {"idle", "done"} => dpc = "serve")
  /\ [](\A c \in Calls : call[c].res.kind # "res")
  /\ [](\A c \in Calls :
          pc[c] = "done" /\ timer[c] # "off"
            => call[c].err = <<errTimeout>> /\ timer[c] = "fired")

\* C31 witness: the handler is still running and a Do it issued has come
\* back with [errTimeout]; the peer's response to it was never taken.
C31_Witness ==
  /\ dpc = "serve"
  /\ \E c \in Calls :
       /\ pc[c] = "done" /\ call[c].err = <<errTimeout>>
       /\ timer[c] = "fired" /\ frames = 0

====
